---- MODULE Spec2Model ----
(***************************************************************************)
(* apiki-gateway: the credit-metered request pipeline of the gateway       *)
(* worker (src/src/gateway/index.ts) with its key, target and credits      *)
(* services, and the admin credit handlers that write the same balances.   *)
(* SpecTarget applies the functions of the target service (path matching,  *)
(* relative path, backend URL) to paths and targets of every shape.        *)
(* SpecCache and SpecUsage run the key and credits services with their     *)
(* caches and detached usage tracking, SpecCredits sets the two            *)
(* processCredits side by side, SpecIndex runs the admin's key service     *)
(* with deleteClient, SpecRecords the admin's GET and PUT handlers of      *)
(* single records, and SpecClients the creation of clients. SpecFaults     *)
(* lets the store fail the reads and the write of a debit, SpecLookup      *)
(* applies the static cost lookups and the matcher to paths, SpecFind runs *)
(* findTargetConfig on stores of targets, and SpecDynamic the handler that *)
(* looks its target up in the store.                                       *)
(*                                                                         *)
(* Strings that the code inspects character by character (paths, patterns, *)
(* stored balances) are sequences of one-character strings.                *)
(***************************************************************************)
EXTENDS Integers, Sequences, FiniteSets, TLC

\* ------------------------------------------------------------------ bounds

\* number of gateway requests started in one behaviour
MaxRequests == 3
\* the clock runs from 1 to MaxNow (milliseconds)
MaxNow == 2
\* number of gateway requests started in one behaviour with the admin at work
MaxDebitRequests == 2
\* number of admin credit requests in one behaviour
MaxAdminOps == 1
\* length of the longest path given to the functions of the target service
MaxPathLen == 5
\* number of calls of validateApiKey and processCredits in one behaviour
MaxCalls == 2
\* number of times the clock of the services is advanced
MaxElapsed == 2
\* the largest balance the two processCredits are compared on
MaxBalance == 9
\* number of admin requests on keys and clients in one behaviour
MaxManageOps == 2

\* ------------------------------------------------------------ string helpers

\* JS null; no string is equal to it, strings being made of single characters
NULL == <<"null">>

Digits == <<"0", "1", "2", "3", "4", "5", "6", "7", "8", "9">>

IsDigit(ch) == \E d \in 1..10 : Digits[d] = ch

DigitVal(ch) == (CHOOSE d \in 1..10 : Digits[d] = ch) - 1

\* String.prototype.slice(from) / substring(from), 0-based
Drop(s, n) == IF n >= Len(s) THEN <<>> ELSE SubSeq(s, n + 1, Len(s))

\* String.prototype.slice(0, -1)
DropLast(s) == IF Len(s) = 0 THEN <<>> ELSE SubSeq(s, 1, Len(s) - 1)

StartsWith(s, p) == Len(p) <= Len(s) /\ SubSeq(s, 1, Len(p)) = p

EndsWith(s, p) == Len(p) <= Len(s) /\ SubSeq(s, Len(s) - Len(p) + 1, Len(s)) = p

\* Number.prototype.toString for integers
RECURSIVE NatToString(_)
NatToString(n) ==
    IF n < 10 THEN <<Digits[n + 1]>>
    ELSE Append(NatToString(n \div 10), Digits[(n % 10) + 1])

toString(n) == IF n < 0 THEN <<"-">> \o NatToString(0 - n) ELSE NatToString(n)

\* value of the longest prefix of digits of s, from the accumulator acc
RECURSIVE ParseDigits(_, _)
ParseDigits(s, acc) ==
    IF s = <<>> \/ ~IsDigit(Head(s)) THEN acc
    ELSE ParseDigits(Tail(s), 10 * acc + DigitVal(Head(s)))

\* parseInt(s): optional sign, then the longest prefix of digits; "NaN" when
\* there is no digit
parseInt(s) ==
    LET neg  == s # <<>> /\ Head(s) = "-"
        body == IF s # <<>> /\ Head(s) \in {"-", "+"} THEN Tail(s) ELSE s
    IN  IF body = <<>> \/ ~IsDigit(Head(body)) THEN "NaN"
        ELSE IF neg THEN 0 - ParseDigits(body, 0) ELSE ParseDigits(body, 0)

\* JS truthiness of a string-or-null
Truthy(s) == s # NULL /\ s # <<>>

\* ------------------------------------------------------- regular expressions

\* RegExp.prototype.test for the pattern syntax the target table uses:
\* literal characters, '.', a postfix '*', a leading '^' and a trailing '$'
RECURSIVE MatchHere(_, _)
MatchHere(re, text) ==
    IF re = <<>> THEN TRUE
    ELSE IF Len(re) >= 2 /\ re[2] = "*"
    THEN \E k \in 0..Len(text) :
            /\ \A i \in 1..k : re[1] = "." \/ re[1] = text[i]
            /\ MatchHere(Drop(re, 2), Drop(text, k))
    ELSE IF re = <<"$">> THEN text = <<>>
    ELSE /\ text # <<>>
         /\ re[1] = "." \/ re[1] = text[1]
         /\ MatchHere(Tail(re), Tail(text))

RegExpTest(re, text) ==
    IF re # <<>> /\ re[1] = "^" THEN MatchHere(Tail(re), text)
    ELSE \E k \in 0..Len(text) : MatchHere(re, Drop(text, k))

\* new RegExp(pattern) does not throw: every '*' has something to repeat
RegExpCompiles(re) ==
    \A i \in 1..Len(re) :
        re[i] = "*" => (i > 1 /\ re[i - 1] \notin {"*", "^", "$"})

\* ------------------------------------------------------------ configuration

ApiBackendUrl ==
    <<"h", "t", "t", "p", "s", ":", "/", "/", "a", "p", "i", "-",
        "b", "a", "c", "k", "e", "n", "d", ".", "e", "x", "a", "m",
        "p", "l", "e", ".", "c", "o", "m">>

ComplexApiUrl ==
    <<"h", "t", "t", "p", "s", ":", "/", "/", "c", "o", "m", "p",
        "l", "e", "x", "-", "a", "p", "i", ".", "e", "x", "a", "m",
        "p", "l", "e", ".", "c", "o", "m">>

\* a pattern written as a glob in a target marked isRegex: new RegExp throws
\* "Nothing to repeat"
BrokenPattern == <<"*", "/", "b", "r", "o", "k", "e", "n", "/", "*">>

\* src/src/config/targets.ts, and a third target, broken-target, as a table
\* with a misconfigured entry has it
targets ==
    << [id |-> "api-target1",
        pattern |-> <<"/", "a", "p", "i", "/", "v", "1", "/", "*">>,
        isRegex |-> FALSE,
        targetUrl |-> ApiBackendUrl,
        costInfo |-> [cost |-> 2]],
       [id |-> "complex-target",
        pattern |-> <<"^", "/", "c", "o", "m", "p", "l", "e", "x", "/", ".", "*", "$">>,
        isRegex |-> TRUE,
        targetUrl |-> ComplexApiUrl,
        costInfo |-> [cost |-> 5]],
       [id |-> "broken-target",
        pattern |-> BrokenPattern,
        isRegex |-> TRUE,
        targetUrl |-> ComplexApiUrl,
        costInfo |-> [cost |-> 1]] >>

NoTarget == [id |-> "", pattern |-> <<>>, isRegex |-> FALSE, targetUrl |-> <<>>,
             costInfo |-> [cost |-> 0]]

\* targets.find((target) => target.id === targetId), NoTarget for null
getTargetConfig(targetId) ==
    IF \E i \in 1..Len(targets) : targets[i].id = targetId
    THEN targets[CHOOSE i \in 1..Len(targets) :
                    /\ targets[i].id = targetId
                    /\ \A j \in 1..(i - 1) : targets[j].id # targetId]
    ELSE NoTarget

\* a matcher that takes a pattern that does not compile to match every path
matchTargetPattern_InvalidMatches(path, config) ==
    IF config.isRegex
    THEN IF RegExpCompiles(config.pattern) THEN RegExpTest(config.pattern, path)
         ELSE TRUE
    ELSE IF EndsWith(config.pattern, <<"*">>)
    THEN LET basePath == DropLast(config.pattern)
             basePathNoSlash ==
                 IF EndsWith(basePath, <<"/">>) THEN DropLast(basePath) ELSE basePath
         IN  \/ path = basePath
             \/ path = basePathNoSlash
             \/ StartsWith(path, basePath)
    ELSE IF EndsWith(config.pattern, <<"/">>)
    THEN path = DropLast(config.pattern) \/ path = config.pattern
    ELSE path = config.pattern

\* a matcher of wildcard patterns without the case of the base path written
\* without its trailing slash
matchTargetPattern_NoSlashless(path, config) ==
    IF config.isRegex
    THEN IF RegExpCompiles(config.pattern) THEN RegExpTest(config.pattern, path)
         ELSE FALSE
    ELSE IF EndsWith(config.pattern, <<"*">>)
    THEN LET basePath == DropLast(config.pattern)
         IN  path = basePath \/ StartsWith(path, basePath)
    ELSE IF EndsWith(config.pattern, <<"/">>)
    THEN path = DropLast(config.pattern) \/ path = config.pattern
    ELSE path = config.pattern

\* new RegExp(pattern).test(path) in a try whose catch returns false, then the
\* wildcard, trailing-slash and exact patterns
matchTargetPattern(path, config) ==
    IF config.isRegex
    THEN IF RegExpCompiles(config.pattern) THEN RegExpTest(config.pattern, path)
         ELSE FALSE
    ELSE IF EndsWith(config.pattern, <<"*">>)
    THEN LET basePath == DropLast(config.pattern)
             basePathNoSlash ==
                 IF EndsWith(basePath, <<"/">>) THEN DropLast(basePath) ELSE basePath
         IN  \/ path = basePath
             \/ path = basePathNoSlash
             \/ StartsWith(path, basePath)
    ELSE IF EndsWith(config.pattern, <<"/">>)
    THEN path = DropLast(config.pattern) \/ path = config.pattern
    ELSE path = config.pattern

\* String.prototype.includes(sub)
Includes(s, sub) == \E i \in 1..(Len(s) - Len(sub) + 1) : SubSeq(s, i, i + Len(sub) - 1) = sub

\* String.prototype.indexOf(sub), 0-based, of a string that includes sub
IndexOf(s, sub) ==
    (CHOOSE i \in 1..(Len(s) - Len(sub) + 1) :
        /\ SubSeq(s, i, i + Len(sub) - 1) = sub
        /\ \A j \in 1..(i - 1) : SubSeq(s, j, j + Len(sub) - 1) # sub) - 1

\* String.prototype.replace(/\\/g, '')
RemoveBackslashes(s) == SelectSeq(s, LAMBDA ch : ch # "\\")

\* path.length > 1 && path.endsWith('/') ? path.slice(0, -1) : path
StripTrailingSlash(s) ==
    IF Len(s) > 1 /\ EndsWith(s, <<"/">>) THEN DropLast(s) ELSE s

\* an extraction that does not put the '/' in front of the part after the
\* base path of a wildcard pattern
extractRelativePath_NoLeadingSlash(path, config) ==
    LET normalizedPath == StripTrailingSlash(path)
    IN  IF config.isRegex /\ StartsWith(config.pattern, <<"^", "/">>)
           /\ Includes(config.pattern, <<"/", ".", "*">>)
        THEN LET basePath ==
                     RemoveBackslashes(
                         SubSeq(config.pattern, 2,
                                IndexOf(config.pattern, <<"/", ".", "*">>)))
             IN  IF normalizedPath = basePath \/ normalizedPath = basePath \o <<"/">>
                 THEN <<"/">>
                 ELSE IF StartsWith(normalizedPath, basePath)
                 THEN IF Drop(normalizedPath, Len(basePath)) = <<>> THEN <<"/">>
                      ELSE Drop(normalizedPath, Len(basePath))
                 ELSE normalizedPath
        ELSE IF ~config.isRegex /\ EndsWith(config.pattern, <<"*">>)
        THEN LET basePath == DropLast(config.pattern)
             IN  IF normalizedPath = basePath \/ normalizedPath = DropLast(basePath)
                 THEN <<"/">>
                 ELSE IF StartsWith(normalizedPath, basePath)
                 THEN Drop(normalizedPath, Len(basePath))
                 ELSE <<"/">>
        ELSE <<"/">>

extractRelativePath(path, config) ==
    LET normalizedPath == StripTrailingSlash(path)
    IN  IF config.isRegex /\ StartsWith(config.pattern, <<"^", "/">>)
           /\ Includes(config.pattern, <<"/", ".", "*">>)
        THEN LET basePath ==
                     RemoveBackslashes(
                         SubSeq(config.pattern, 2,
                                IndexOf(config.pattern, <<"/", ".", "*">>)))
             IN  IF normalizedPath = basePath \/ normalizedPath = basePath \o <<"/">>
                 THEN <<"/">>
                 ELSE IF StartsWith(normalizedPath, basePath)
                 THEN IF Drop(normalizedPath, Len(basePath)) = <<>> THEN <<"/">>
                      ELSE Drop(normalizedPath, Len(basePath))
                 ELSE normalizedPath
        ELSE IF ~config.isRegex /\ EndsWith(config.pattern, <<"*">>)
        THEN LET basePath == DropLast(config.pattern)
                 relativePath == Drop(normalizedPath, Len(basePath))
             IN  IF normalizedPath = basePath \/ normalizedPath = DropLast(basePath)
                 THEN <<"/">>
                 ELSE IF StartsWith(normalizedPath, basePath)
                 THEN IF StartsWith(relativePath, <<"/">>) THEN relativePath
                      ELSE <<"/">> \o relativePath
                 ELSE <<"/">>
        ELSE <<"/">>

\* the element of a set of one element; Only({F(x) : x \in {e}}) is F(e)
\* with e evaluated once, as a const is
Only(S) == CHOOSE v \in S : TRUE

\* the handler's cleanup of the relative path
cleanRelativePath(path, config) ==
    Only({StripTrailingSlash(relativePath) :
              relativePath \in {extractRelativePath(path, config)}})

\* targetUrl.endsWith('/') ? targetUrl.slice(0, -1) : targetUrl
targetUrlBase(config) ==
    IF EndsWith(config.targetUrl, <<"/">>) THEN DropLast(config.targetUrl)
    ELSE config.targetUrl

\* new URL(s).toString() for an http(s) URL without query: a URL that has no
\* path after its host gets the path '/'
NewURL(s) ==
    IF Includes(s, <<":", "/", "/">>)
       /\ ~Includes(Drop(s, IndexOf(s, <<":", "/", "/">>) + 3), <<"/">>)
    THEN s \o <<"/">>
    ELSE s

\* new URL(`${targetUrlBase}${cleanRelativePath}`) with its search set to the
\* search of the inbound URL
TargetUrl(path, search, config) ==
    Only({NewURL(href) \o search :
              href \in {targetUrlBase(config) \o cleanRelativePath(path, config)}})

\* ---------------------------------------------------------------- the store

Clients == {"c1", "c2"}

\* JS null for a timestamp; Date.now() is positive
NullTime == 0 - 1

\* KV_API_KEY.get of a key without a record
NoConfig == [exists |-> FALSE, clientId |-> "", targetId |-> "", active |-> FALSE,
             expiresAt |-> NullTime]

ApiKeyConfig(clientId, targetId, active, expiresAt) ==
    [exists |-> TRUE, clientId |-> clientId, targetId |-> targetId,
     active |-> active, expiresAt |-> expiresAt]

ApiKeys == {"key-a", "key-b", "key-c", "key-off", "key-gone", "key-bad", "key-none"}

\* a time later than every time of the clock
Later == MaxNow + 1000

\* the records the admin has stored: key-a expires later than the clock runs,
\* key-b expires at time 1, the time at the start, key-c has an expiresAt of
\* 0, key-off is inactive, key-gone never expires and is bound to a target
\* that is not in the table, key-bad is bound to the target whose pattern
\* does not compile, key-none has no record
InitialApiKeys ==
    [k \in ApiKeys |->
        CASE k = "key-a"    -> ApiKeyConfig("c1", "api-target1", TRUE, Later)
          [] k = "key-b"    -> ApiKeyConfig("c1", "complex-target", TRUE, 1)
          [] k = "key-c"    -> ApiKeyConfig("c2", "complex-target", TRUE, 0)
          [] k = "key-off"  -> ApiKeyConfig("c2", "complex-target", FALSE, NullTime)
          [] k = "key-gone" -> ApiKeyConfig("c1", "old-target", TRUE, NullTime)
          [] k = "key-bad"  -> ApiKeyConfig("c1", "broken-target", TRUE, NullTime)
          [] OTHER          -> NoConfig]

\* the balances at the start: 10 for c1, no credits record for c2
InitialCredits == [c \in Clients |-> IF c = "c1" THEN toString(10) ELSE NULL]

\* ------------------------------------------------------------- the requests

PathApi == <<"/", "a", "p", "i", "/", "v", "1", "/", "x">>
PathComplex == <<"/", "c", "o", "m", "p", "l", "e", "x", "/", "a">>
PathOther == <<"/", "o", "t", "h", "e", "r">>
PathBroken == <<"/", "b", "r", "o", "k", "e", "n", "/", "a">>

\* request.headers.get('X-API-Key') of a request without the header
NoHeader == ""

Inbound(method, apiKey, path) == [method |-> method, apiKey |-> apiKey, path |-> path]

\* the inbound requests of the model
InboundRequests ==
    { Inbound("OPTIONS", NoHeader, PathApi),
      Inbound("GET", NoHeader, PathApi),
      Inbound("GET", "key-none", PathApi),
      Inbound("GET", "key-off", PathComplex),
      Inbound("GET", "key-gone", PathApi),
      Inbound("GET", "key-a", PathApi),
      Inbound("POST", "key-a", PathOther),
      Inbound("GET", "key-b", PathComplex),
      Inbound("GET", "key-c", PathComplex),
      Inbound("GET", "key-c", PathOther),
      Inbound("GET", "key-bad", PathBroken) }

NoRequest == Inbound("", NoHeader, <<>>)

\* two invocations of the handler can be in flight at the same time
Slots == {1, 2}

VARIABLES
    now,            \* Date.now()
    KV_API_KEY,     \* apikey:<key> records
    KV_CREDITS,     \* credits:<clientId> strings
    pc,             \* per slot: where the fetch handler is suspended
    request,        \* per slot: the inbound request
    requestId,      \* per slot: the correlation id generated at entry
    apiKeyConfig,   \* per slot: the record read for the key
    creditResult,   \* per slot: the handler's creditResult
    newBalance,     \* per slot: processCredits' newBalance, between read and write
    response,       \* per slot: the response returned
    effects,        \* per slot: calls of processCredits, store writes, backend requests
    started,        \* requests started so far
    spent,          \* per client: sum of the used credits processCredits reported
    fetchRequest,   \* per slot: the request the handler sends to the backend
    call,           \* the arguments of a call of the target service's functions
    ret,            \* what the functions have returned for call
    adminPc,        \* the admin credit handler: idle, or between POST's read and write
    adminRequest,   \* the admin request being served
    adminResponse,  \* status of the last admin response
    adminOps,       \* admin requests started so far
    apiKeyCache,    \* the validator's SimpleCache: per key, the entry and its expires
    inv,            \* per caller: the call of validateApiKey or processCredits it is in
    tracker,        \* per call: the detached trackApiKeyUsage or trackUsage
    calls,          \* calls of the two services so far
    KV_USAGE,       \* keyusage:<key>:<day> and usage:<clientId>:<day> counters
    elapsed,        \* times the clock of the services was advanced
    debit,          \* one balance and one cost, under both processCredits
    APIKI_KV,       \* the admin's records: clients, key lists, email references
    clientKeysCache,\* the admin key service's clientKeysCache
    clientsListCache,\* the admin client service's cache of clients:list
    mgmt,           \* per admin request: the management operation it is in
    mgmtOps,        \* management requests started so far
    targetsListCache,\* the target service's cache of targets:list
    targetCache,    \* the target service's cache of descriptors, per target id
    find,           \* the call of findTargetConfig
    dynamic         \* the fetch handler that looks its target up in the store

vars == <<now, KV_API_KEY, KV_CREDITS, pc, request, requestId, apiKeyConfig,
          creditResult, newBalance, response, effects, started, spent, adminPc,
          adminRequest, adminResponse, adminOps, fetchRequest, call, ret,
          apiKeyCache, inv, tracker, calls, KV_USAGE, elapsed, debit,
          APIKI_KV, clientKeysCache, clientsListCache, mgmt, mgmtOps,
          targetsListCache, targetCache, find, dynamic>>

gatewayVars == <<pc, request, requestId, apiKeyConfig, creditResult, newBalance,
                 response, effects, started, spent, fetchRequest>>

adminVars == <<adminPc, adminRequest, adminResponse, adminOps>>

targetVars == <<call, ret>>

serviceVars == <<apiKeyCache, inv, tracker, calls, KV_USAGE, elapsed>>

manageVars == <<APIKI_KV, clientKeysCache, clientsListCache, mgmt, mgmtOps>>

findVars == <<targetsListCache, targetCache, find, dynamic>>

extraVars == <<serviceVars, debit, manageVars, findVars>>

\* ---------------------------------------------------------------- responses

EmptyHeaders == [h \in {} |-> ""]

DEFAULT_SECURITY_HEADERS ==
    ("X-Content-Type-Options" :> "nosniff") @@
    ("X-Frame-Options" :> "DENY") @@
    ("X-XSS-Protection" :> "1; mode=block") @@
    ("Referrer-Policy" :> "strict-origin-when-cross-origin") @@
    ("Content-Security-Policy" :> "default-src 'self'; script-src 'self'") @@
    ("Strict-Transport-Security" :> "max-age=31536000; includeSubDomains; preload") @@
    ("Cache-Control" :> "no-store, no-cache, must-revalidate, proxy-revalidate") @@
    ("Pragma" :> "no-cache")

\* a body that is not the JSON {error, code} of errorResponse: no body, or the
\* body of the backend
NoBody == [error |-> "", code |-> 0]

BackendBody == [error |-> "backend", code |-> 0]

NoResponse == [status |-> 0, headers |-> EmptyHeaders, body |-> NoBody, proxied |-> FALSE]

\* the generic message of a status, or the message given
productionMessage(status, message) ==
    CASE status = 400 -> "Bad Request"
      [] status = 401 -> "Unauthorized"
      [] status = 403 -> "Forbidden"
      [] status = 404 -> "Not Found"
      [] status = 429 -> "Too Many Requests"
      [] status = 500 -> "Internal Server Error"
      [] status = 502 -> "Bad Gateway"
      [] status = 503 -> "Service Unavailable"
      [] OTHER -> message

\* {'Content-Type', ...DEFAULT_SECURITY_HEADERS, ...extraHeaders}: the later wins
errorResponse(status, message, extraHeaders) ==
    [status  |-> status,
     headers |-> extraHeaders @@ DEFAULT_SECURITY_HEADERS @@
                 ("Content-Type" :> "application/json"),
     body    |-> [error |-> productionMessage(status, message), code |-> status],
     proxied |-> FALSE]

\* createCorsResponse for a request without an Origin header
handleCors ==
    [status  |-> 204,
     headers |-> ("Access-Control-Allow-Origin" :> "null") @@
                 ("Access-Control-Allow-Methods" :> "GET, POST, PUT, DELETE, OPTIONS") @@
                 ("Access-Control-Allow-Headers" :>
                      "Content-Type, X-API-Key, Authorization, X-Admin-Key") @@
                 ("Access-Control-Max-Age" :> "86400") @@
                 DEFAULT_SECURITY_HEADERS,
     body    |-> NoBody,
     proxied |-> FALSE]

\* adds the security headers the response does not have
secureResponse(resp) ==
    [resp EXCEPT !.headers = resp.headers @@ DEFAULT_SECURITY_HEADERS]

\* what the backend can answer: its status and headers (a backend may set a
\* header of the same name as one of the gateway's)
BackendResponses ==
    { [status |-> 200, headers |-> EmptyHeaders],
      [status |-> 503, headers |-> ("X-Request-ID" :> 0) @@
                                   ("X-Credits-Remaining" :> <<"9", "9">>)] }

\* ------------------------------------------------------ the fetch handler

\* the headers of an inbound request: the key, one the client sends and one
\* the platform adds
InboundHeaders(rq) ==
    ("X-API-Key" :> rq.apiKey) @@ ("accept" :> "*/*") @@ ("cf-ray" :> "8f2a")

\* the headers the handler deletes from the request it sends
DeletedHeaders ==
    {"cf-connecting-ip", "cf-ipcountry", "cf-ray", "cf-visitor", "x-forwarded-for",
     "x-forwarded-proto"}

\* targetConfig.forwardApiKey, a property TargetConfig does not declare:
\* undefined, unless a target of the table has it
forwardApiKey(config) == "forwardApiKey" \in DOMAIN config /\ config.forwardApiKey

\* url.search of an inbound request without a query
NoSearch == <<>>

\* new Request(targetUrl, {method, headers: request.headers, ...}) and the
\* deletions that follow
FetchRequest(rq, config) ==
    [method  |-> rq.method,
     url     |-> TargetUrl(rq.path, NoSearch, config),
     headers |-> [h \in (DOMAIN InboundHeaders(rq)) \ DeletedHeaders |->
                     InboundHeaders(rq)[h]]]

NoFetchRequest == [method |-> "", url |-> <<>>, headers |-> EmptyHeaders]

\* crypto.randomUUID().slice(0, 8): an id no earlier request has
randomUUID == started + 1

\* an error response built without the correlation header
RequestIdHeader_Missing(id) == EmptyHeaders

\* the extra headers of the handler's responses
RequestIdHeader(id) == "X-Request-ID" :> id

\* the headers of the 402 with the required credits taken from the result
InsufficientHeaders_RequiredFromUsed(result, target, id) ==
    ("X-Credits-Remaining" :> toString(result.remaining)) @@
    ("X-Credits-Required" :> toString(result.used)) @@
    ("X-Request-ID" :> id)

InsufficientHeaders(result, target, id) ==
    ("X-Credits-Remaining" :> toString(result.remaining)) @@
    ("X-Credits-Required" :> toString(target.costInfo.cost)) @@
    ("X-Request-ID" :> id)

\* the credit headers with the used credits taken from the remaining ones
CreditHeaders_UsedFromRemaining(result, id) ==
    ("X-Credits-Remaining" :> toString(result.remaining)) @@
    ("X-Credits-Used" :> toString(result.remaining)) @@
    ("X-Request-ID" :> id)

CreditHeaders(result, id) ==
    ("X-Credits-Remaining" :> toString(result.remaining)) @@
    ("X-Credits-Used" :> toString(result.used)) @@
    ("X-Request-ID" :> id)

\* an expiry check that also rejects a key at the instant it expires
ExpiredOrInactive_AtExpiry(cfg, t) ==
    ~cfg.active \/ (cfg.expiresAt # NullTime /\ cfg.expiresAt # 0 /\ cfg.expiresAt <= t)

\* !apiKeyConfig.active || (apiKeyConfig.expiresAt && apiKeyConfig.expiresAt < Date.now())
ExpiredOrInactive(cfg, t) ==
    ~cfg.active \/ (cfg.expiresAt # NullTime /\ cfg.expiresAt # 0 /\ cfg.expiresAt < t)

\* the checks without the one of the active flag and of the expiry
ValidationStatus_NoActiveCheck(cfg, path, t) ==
    IF ~cfg.exists \/ cfg.clientId = "" \/ cfg.targetId = "" THEN 403
    ELSE IF getTargetConfig(cfg.targetId) = NoTarget THEN 404
    ELSE IF ~matchTargetPattern(path, getTargetConfig(cfg.targetId)) THEN 404
    ELSE 0

\* the status of the first check that fails between the key read and the
\* debit, 0 when all pass
ValidationStatus(cfg, path, t) ==
    IF ~cfg.exists \/ cfg.clientId = "" \/ cfg.targetId = "" THEN 403
    ELSE IF ExpiredOrInactive(cfg, t) THEN 403
    ELSE IF getTargetConfig(cfg.targetId) = NoTarget THEN 404
    ELSE IF ~matchTargetPattern(path, getTargetConfig(cfg.targetId)) THEN 404
    ELSE 0

ValidationMessage(cfg, path, t) ==
    IF ~cfg.exists \/ cfg.clientId = "" \/ cfg.targetId = "" THEN "Invalid API key"
    ELSE IF ExpiredOrInactive(cfg, t) THEN "API key expired or inactive"
    ELSE IF getTargetConfig(cfg.targetId) = NoTarget
    THEN "Target not found for this API key"
    ELSE "Target not found for this path"

Respond(r, resp) ==
    /\ response' = [response EXCEPT ![r] = resp]
    /\ pc' = [pc EXCEPT ![r] = "done"]

Count(r, field) == [effects EXCEPT ![r][field] = @ + 1]

\* entry of fetch: the id, the preflight short-circuit, the key header check
Start(r, rq) ==
    /\ pc[r] = "idle"
    /\ started < MaxRequests
    /\ started' = started + 1
    /\ request' = [request EXCEPT ![r] = rq]
    /\ requestId' = [requestId EXCEPT ![r] = randomUUID]
    /\ creditResult' = [creditResult EXCEPT
                           ![r] = [success |-> TRUE, remaining |-> 0, used |-> 0]]
    /\ IF rq.method = "OPTIONS" THEN Respond(r, handleCors)
       ELSE IF rq.apiKey = NoHeader
       THEN Respond(r, errorResponse(401, "API key required", RequestIdHeader(randomUUID)))
       ELSE /\ pc' = [pc EXCEPT ![r] = "getApiKeyConfig"]
            /\ UNCHANGED response
    /\ UNCHANGED <<now, KV_API_KEY, KV_CREDITS, apiKeyConfig, newBalance, effects,
                   spent, adminVars, fetchRequest, targetVars, extraVars>>

\* getApiKeyConfig: the store answers the read of apikey:<key>
GetApiKeyConfig(r) ==
    /\ pc[r] = "getApiKeyConfig"
    /\ apiKeyConfig' = [apiKeyConfig EXCEPT ![r] = KV_API_KEY[request[r].apiKey]]
    /\ pc' = [pc EXCEPT ![r] = "validate"]
    /\ UNCHANGED <<now, KV_API_KEY, KV_CREDITS, request, requestId, creditResult,
                   newBalance, response, effects, started, spent,
                   adminVars, fetchRequest, targetVars, extraVars>>

\* a validation that writes a usage counter for the key, as the caching
\* validator does, whatever the outcome
Validate_TracksUsage(r) ==
    /\ pc[r] = "validate"
    /\ LET status == ValidationStatus(apiKeyConfig[r], request[r].path, now)
       IN  IF status # 0
           THEN /\ Respond(r, errorResponse(status,
                                  ValidationMessage(apiKeyConfig[r], request[r].path, now),
                                  RequestIdHeader(requestId[r])))
                /\ effects' = Count(r, "puts")
           ELSE /\ pc' = [pc EXCEPT ![r] = "processCredits"]
                /\ effects' = [effects EXCEPT ![r].puts = @ + 1, ![r].debits = @ + 1]
                /\ UNCHANGED response
    /\ UNCHANGED <<now, KV_API_KEY, KV_CREDITS, request, requestId, apiKeyConfig,
                   creditResult, newBalance, started, spent, adminVars,
                   fetchRequest, targetVars, extraVars>>

\* a validation that marks the record of a key it refuses as inactive
Validate_Deactivates(r) ==
    /\ pc[r] = "validate"
    /\ LET status == ValidationStatus(apiKeyConfig[r], request[r].path, now)
       IN  IF status # 0
           THEN /\ Respond(r, errorResponse(status,
                                  ValidationMessage(apiKeyConfig[r], request[r].path, now),
                                  RequestIdHeader(requestId[r])))
                /\ KV_API_KEY' = [KV_API_KEY EXCEPT ![request[r].apiKey].active = FALSE]
                /\ UNCHANGED effects
           ELSE /\ pc' = [pc EXCEPT ![r] = "processCredits"]
                /\ effects' = Count(r, "debits")
                /\ UNCHANGED <<response, KV_API_KEY>>
    /\ UNCHANGED <<now, KV_CREDITS, request, requestId, apiKeyConfig,
                   creditResult, newBalance, started, spent,
                   adminVars, fetchRequest, targetVars, extraVars>>

\* the checks of the key record, of the target and of the path, then the call
\* of processCredits
Validate(r) ==
    /\ pc[r] = "validate"
    /\ LET status == ValidationStatus(apiKeyConfig[r], request[r].path, now)
       IN  IF status # 0
           THEN /\ Respond(r, errorResponse(status,
                                  ValidationMessage(apiKeyConfig[r], request[r].path, now),
                                  RequestIdHeader(requestId[r])))
                /\ UNCHANGED effects
           ELSE /\ pc' = [pc EXCEPT ![r] = "processCredits"]
                /\ effects' = Count(r, "debits")
                /\ UNCHANGED response
    /\ UNCHANGED <<now, KV_API_KEY, KV_CREDITS, request, requestId, apiKeyConfig,
                   creditResult, newBalance, started, spent,
                   adminVars, fetchRequest, targetVars, extraVars>>

\* -------------------------------------------------------- processCredits

\* a check that only asks for a positive balance
Insufficient_PositiveOnly(cost, clientBalance) == clientBalance <= 0

\* a check that also refuses a balance equal to the cost
Insufficient_NotGreater(cost, clientBalance) == cost >= clientBalance

\* targetConfig.costInfo.cost > clientBalance
Insufficient(cost, clientBalance) == cost > clientBalance

\* balance ? parseInt(balance) : 0
ClientBalance(balance) == IF Truthy(balance) THEN parseInt(balance) ELSE 0

TargetOf(r) == getTargetConfig(apiKeyConfig[r].targetId)

\* the store answers the read of credits:<clientId>; with too small a balance
\* processCredits returns and the handler answers 402, else the write of the
\* new balance is sent
ProcessCreditsGet(r) ==
    /\ pc[r] = "processCredits"
    /\ LET clientId      == apiKeyConfig[r].clientId
           cost          == TargetOf(r).costInfo.cost
           clientBalance == ClientBalance(KV_CREDITS[clientId])
           failed        == [success |-> FALSE, remaining |-> clientBalance, used |-> 0]
       IN  IF Insufficient(cost, clientBalance)
           THEN /\ creditResult' = [creditResult EXCEPT ![r] = failed]
                /\ Respond(r, errorResponse(402, "Insufficient credits",
                                  InsufficientHeaders(failed, TargetOf(r), requestId[r])))
                /\ UNCHANGED <<newBalance, spent>>
           ELSE /\ newBalance' = [newBalance EXCEPT ![r] = clientBalance - cost]
                /\ pc' = [pc EXCEPT ![r] = "putString"]
                /\ UNCHANGED <<creditResult, spent, response>>
    /\ UNCHANGED <<now, KV_API_KEY, KV_CREDITS, request, requestId, apiKeyConfig,
                   effects, started, adminVars, fetchRequest, targetVars, extraVars>>

\* the store applies the write of the new balance; processCredits returns
\* success and the handler sends the request to the backend
ProcessCreditsPut(r) ==
    /\ pc[r] = "putString"
    /\ LET clientId == apiKeyConfig[r].clientId
           result   == [success |-> TRUE, remaining |-> newBalance[r],
                        used |-> TargetOf(r).costInfo.cost]
       IN  /\ KV_CREDITS' = [KV_CREDITS EXCEPT ![clientId] = toString(newBalance[r])]
           /\ creditResult' = [creditResult EXCEPT ![r] = result]
           /\ spent' = [spent EXCEPT ![clientId] = @ + result.used]
    /\ effects' = [effects EXCEPT ![r].puts = @ + 1, ![r].fetches = @ + 1]
    /\ fetchRequest' = [fetchRequest EXCEPT ![r] = FetchRequest(request[r], TargetOf(r))]
    /\ pc' = [pc EXCEPT ![r] = "fetch"]
    /\ UNCHANGED <<now, KV_API_KEY, request, requestId, apiKeyConfig, newBalance,
                   response, started, adminVars, targetVars, extraVars>>

\* ------------------------------------------------------------ the backend

\* the backend answers: its response with the gateway's headers set
BackendResponds(r, backendResponse) ==
    /\ pc[r] = "fetch"
    /\ Respond(r, secureResponse(
                      [status  |-> backendResponse.status,
                       headers |-> CreditHeaders(creditResult[r], requestId[r]) @@
                                   backendResponse.headers,
                       body    |-> BackendBody,
                       proxied |-> TRUE]))
    /\ UNCHANGED <<now, KV_API_KEY, KV_CREDITS, request, requestId, apiKeyConfig,
                   creditResult, newBalance, effects, started, spent, adminVars,
                   fetchRequest, targetVars, extraVars>>

\* a handler that debits again and retries when fetch rejects
BackendFails_Retry(r) ==
    /\ pc[r] = "fetch"
    /\ effects[r].debits <= MaxRequests
    /\ pc' = [pc EXCEPT ![r] = "processCredits"]
    /\ effects' = Count(r, "debits")
    /\ UNCHANGED <<now, KV_API_KEY, KV_CREDITS, request, requestId, apiKeyConfig,
                   creditResult, newBalance, response, started, spent, adminVars,
                   fetchRequest, targetVars, extraVars>>

\* a catch that gives the credits back before it answers
BackendFails_Refund(r) ==
    /\ pc[r] = "fetch"
    /\ KV_CREDITS' = [KV_CREDITS EXCEPT ![apiKeyConfig[r].clientId] =
                          toString(ClientBalance(@) + creditResult[r].used)]
    /\ effects' = Count(r, "puts")
    /\ Respond(r, errorResponse(500, "Internal Server Error",
                                CreditHeaders(creditResult[r], requestId[r])))
    /\ UNCHANGED <<now, KV_API_KEY, request, requestId, apiKeyConfig,
                   creditResult, newBalance, started, spent, adminVars,
                   fetchRequest, targetVars, extraVars>>

\* fetch rejects (network error): the handler's catch answers 500
BackendFails(r) ==
    /\ pc[r] = "fetch"
    /\ Respond(r, errorResponse(500, "Internal Server Error",
                                CreditHeaders(creditResult[r], requestId[r])))
    /\ UNCHANGED <<now, KV_API_KEY, KV_CREDITS, request, requestId, apiKeyConfig,
                   creditResult, newBalance, effects, started, spent, adminVars,
                   fetchRequest, targetVars, extraVars>>

NoEffects == [debits |-> 0, puts |-> 0, fetches |-> 0]

NoResult == [success |-> TRUE, remaining |-> 0, used |-> 0]

\* the response has been returned: the invocation is over
Return(r) ==
    /\ pc[r] = "done"
    /\ pc' = [pc EXCEPT ![r] = "idle"]
    /\ request' = [request EXCEPT ![r] = NoRequest]
    /\ requestId' = [requestId EXCEPT ![r] = 0]
    /\ apiKeyConfig' = [apiKeyConfig EXCEPT ![r] = NoConfig]
    /\ creditResult' = [creditResult EXCEPT ![r] = NoResult]
    /\ newBalance' = [newBalance EXCEPT ![r] = 0]
    /\ response' = [response EXCEPT ![r] = NoResponse]
    /\ effects' = [effects EXCEPT ![r] = NoEffects]
    /\ fetchRequest' = [fetchRequest EXCEPT ![r] = NoFetchRequest]
    /\ UNCHANGED <<now, KV_API_KEY, KV_CREDITS, started, spent,
                   adminVars, targetVars, extraVars>>

\* time passes
Tick ==
    /\ now < MaxNow
    /\ now' = now + 1
    /\ UNCHANGED <<KV_API_KEY, KV_CREDITS, gatewayVars, adminVars, targetVars, extraVars>>

\* ---------------------------------------------------------- admin credits

\* the credits values of the admin requests of the model
CreditInputs == {0 - 1, 0, 7, 1000001}

\* validateCredits without the check of the sign
validateCredits_NoSignCheck(credits) ==
    IF credits > 1000000 THEN "Credits cannot be greater than 1,000,000" ELSE ""

\* the error message, "" when the value passes
validateCredits(credits) ==
    IF credits < 0 THEN "Credits cannot be negative"
    ELSE IF credits > 1000000 THEN "Credits cannot be greater than 1,000,000"
    ELSE ""

getCreditsByClientId(clientId) == ClientBalance(KV_CREDITS[clientId])

setCreditsByClientId(clientId, credits) ==
    KV_CREDITS' = [KV_CREDITS EXCEPT ![clientId] = toString(credits)]

NoAdminRequest == [clientId |-> "", credits |-> 0]

\* PUT /admin/credits/:clientId
AdminPutCredits(clientId, credits) ==
    /\ adminPc = "idle"
    /\ adminOps < MaxAdminOps
    /\ adminOps' = adminOps + 1
    /\ IF validateCredits(credits) # ""
       THEN adminResponse' = 400 /\ UNCHANGED KV_CREDITS
       ELSE adminResponse' = 200 /\ setCreditsByClientId(clientId, credits)
    /\ UNCHANGED <<now, KV_API_KEY, gatewayVars, adminPc, adminRequest, targetVars, extraVars>>

\* POST /admin/credits: the store answers the read of the current balance
AdminPostCreditsGet(clientId, credits) ==
    /\ adminPc = "idle"
    /\ adminOps < MaxAdminOps
    /\ adminOps' = adminOps + 1
    /\ IF getCreditsByClientId(clientId) # 0 \/ validateCredits(credits) # ""
       THEN adminResponse' = 400 /\ UNCHANGED <<adminPc, adminRequest>>
       ELSE /\ adminPc' = "post"
            /\ adminRequest' = [clientId |-> clientId, credits |-> credits]
            /\ adminResponse' = 0
    /\ UNCHANGED <<now, KV_API_KEY, KV_CREDITS, gatewayVars, targetVars, extraVars>>

\* POST /admin/credits: the store applies the write
AdminPostCreditsPut ==
    /\ adminPc = "post"
    /\ setCreditsByClientId(adminRequest.clientId, adminRequest.credits)
    /\ adminPc' = "idle"
    /\ adminRequest' = NoAdminRequest
    /\ adminResponse' = 200
    /\ UNCHANGED <<now, KV_API_KEY, gatewayVars, adminOps, targetVars, extraVars>>

\* ---------------------------------- the key and credits services with caches

\* callers of validateApiKey and processCredits that can be in flight together
Callers == {1, 2}

\* apiKeyCache.set(cacheKey, keyData, 300000)
ApiKeyCacheTtl == 300000

\* new SimpleCache(): defaultTtl = 300000
DefaultTtl == 300000

\* the steps of the services' clock: the time it takes key-a to expire, the
\* time to live of a cache entry
ClockSteps == {Later, ApiKeyCacheTtl}

\* the keys the callers present: one that expires, one that never does, one
\* that is inactive
ServiceKeys == {"key-a", "key-gone", "key-off"}

\* the key the admin deactivates or deletes
RevokedKeys == {"key-gone"}

\* the debits asked for: the client and getEndpointCost(endpoint)
CreditCalls == {<<"c1", 1>>, <<"c1", 5>>, <<"c2", 1>>}

\* a store of named values: a name that was never written has no value
KvGet(kv, name) == IF name \in DOMAIN kv THEN kv[name] ELSE NULL

KvPut(kv, name, value) ==
    [n \in DOMAIN kv \cup {name} |-> IF n = name THEN value ELSE kv[n]]

\* ------------------------------------------------------------- SimpleCache

\* no entry under the key
NoEntry == [has |-> FALSE, value |-> NoConfig, expires |-> 0]

\* entry.expires && entry.expires < Date.now()
EntryExpired(entry, t) == entry.expires # 0 /\ entry.expires < t

\* a get that gives every entry a new time to live when it is read
CacheGet_Sliding(cache, key, t) ==
    IF ~cache[key].has THEN [found |-> FALSE, value |-> NoConfig, cache |-> cache]
    ELSE [found |-> TRUE, value |-> cache[key].value,
          cache |-> [cache EXCEPT ![key].expires = t + DefaultTtl]]

\* SimpleCache.get: the value found, and the cache after the call
CacheGet(cache, key, t) ==
    IF ~cache[key].has THEN [found |-> FALSE, value |-> NoConfig, cache |-> cache]
    ELSE IF EntryExpired(cache[key], t)
    THEN [found |-> FALSE, value |-> NoConfig, cache |-> [cache EXCEPT ![key] = NoEntry]]
    ELSE [found |-> TRUE, value |-> cache[key].value, cache |-> cache]

\* SimpleCache.set; the cache never holds maxSize (1000) entries here
CacheSet(cache, key, value, ttl, t) ==
    [cache EXCEPT ![key] = [has |-> TRUE, value |-> value,
                            expires |-> IF ttl # 0 THEN t + ttl ELSE t + DefaultTtl]]

\* SimpleCache.delete
CacheDelete(cache, key) == [cache EXCEPT ![key] = NoEntry]

\* ------------------------------------------------------------ the callers

\* processCredits has returned nothing
NoCredit == [success |-> FALSE, remaining |-> 0]

NoInv == [op |-> "", pc |-> "idle", apiKey |-> "", clientId |-> "", cost |-> 0,
          keyData |-> NoConfig, fromCache |-> FALSE, credit |-> NoCredit,
          newBalance |-> 0, call |-> 0]

NoTracker == [pc |-> "none", name |-> <<>>, amount |-> 0, currentUsage |-> 0]

\* new Date().toISOString().split('T')[0], as the number of the day
Today(t) == t \div 86400000

\* KV_KEY_USAGE.key(`${apiKey}:${today}`)
KeyUsageKey(apiKey, t) == <<"keyusage", apiKey, Today(t)>>

\* KeyPrefixes.USAGE.key(`${clientId}:${today}`)
UsageKey(clientId, t) == <<"usage", clientId, Today(t)>>

\* the call number i starts its detached tracking of usage
Spawn(i, name, amount) ==
    tracker' = [tracker EXCEPT ![i] = [pc |-> "get", name |-> name, amount |-> amount,
                                       currentUsage |-> 0]]

\* the function returns to its caller
Returns(s, fields) == inv' = [inv EXCEPT ![s] = fields @@ [inv[s] EXCEPT !.pc = "returned"]]

\* a check of the expiry that never finds a key expired
KeyExpired_Never(keyData, t) == FALSE

\* keyData.expiresAt && new Date(keyData.expiresAt) < new Date(); expiresAt of
\* ApiKeyData is an ISO date string or null, and every date string is truthy
KeyExpired(keyData, t) == keyData.expiresAt # NullTime /\ keyData.expiresAt < t

\* what the services leave alone
ServicesFrame == UNCHANGED <<gatewayVars, adminVars, targetVars, debit, manageVars, findVars>>

\* validateApiKey, up to the answer of the cache: a cached record that is
\* inactive or expired gives null, another one is returned while the usage
\* is tracked, and without a cached record the store is asked
ValidateApiKeyCall(s, apiKey) ==
    /\ inv[s].pc \in {"idle", "returned"}
    /\ calls < MaxCalls
    /\ calls' = calls + 1
    /\ LET got  == CacheGet(apiKeyCache, apiKey, now)
           this == [NoInv EXCEPT !.op = "validateApiKey", !.apiKey = apiKey,
                                 !.call = calls + 1]
       IN  IF got.found
           THEN IF ~got.value.active
                THEN /\ apiKeyCache' = got.cache
                     /\ inv' = [inv EXCEPT ![s] = [this EXCEPT !.pc = "returned",
                                                               !.fromCache = TRUE]]
                     /\ UNCHANGED tracker
                ELSE IF KeyExpired(got.value, now)
                THEN /\ apiKeyCache' = CacheDelete(got.cache, apiKey)
                     /\ inv' = [inv EXCEPT ![s] = [this EXCEPT !.pc = "returned",
                                                               !.fromCache = TRUE]]
                     /\ UNCHANGED tracker
                ELSE /\ apiKeyCache' = got.cache
                     /\ Spawn(calls + 1, KeyUsageKey(apiKey, now), 1)
                     /\ inv' = [inv EXCEPT ![s] = [this EXCEPT !.pc = "returned",
                                                               !.fromCache = TRUE,
                                                               !.keyData = got.value]]
           ELSE /\ apiKeyCache' = got.cache
                /\ inv' = [inv EXCEPT ![s] = [this EXCEPT !.pc = "KV_API_KEY.get"]]
                /\ UNCHANGED tracker
    /\ UNCHANGED <<now, KV_API_KEY, KV_CREDITS, KV_USAGE, elapsed>>
    /\ ServicesFrame

\* validateApiKey, from the answer of the store: a record that is missing,
\* expired or inactive gives null, another one is cached and returned while
\* the usage is tracked
ValidateApiKeyRead(s) ==
    /\ inv[s].pc = "KV_API_KEY.get"
    /\ LET keyData == KV_API_KEY[inv[s].apiKey]
       IN  IF ~keyData.exists \/ KeyExpired(keyData, now) \/ ~keyData.active
           THEN /\ Returns(s, [keyData |-> NoConfig])
                /\ UNCHANGED <<apiKeyCache, tracker>>
           ELSE /\ apiKeyCache' = CacheSet(apiKeyCache, inv[s].apiKey, keyData,
                                           ApiKeyCacheTtl, now)
                /\ Spawn(inv[s].call, KeyUsageKey(inv[s].apiKey, now), 1)
                /\ Returns(s, [keyData |-> keyData])
    /\ UNCHANGED <<now, KV_API_KEY, KV_CREDITS, KV_USAGE, calls, elapsed>>
    /\ ServicesFrame

\* setInterval(() => this.cleanupExpired(), 60000)
CleanupExpired ==
    /\ \E k \in ApiKeys : apiKeyCache[k].has /\ EntryExpired(apiKeyCache[k], now)
    /\ apiKeyCache' = [k \in ApiKeys |->
                          IF apiKeyCache[k].has /\ EntryExpired(apiKeyCache[k], now)
                          THEN NoEntry ELSE apiKeyCache[k]]
    /\ UNCHANGED <<now, KV_API_KEY, KV_CREDITS, KV_USAGE, inv, tracker, calls, elapsed>>
    /\ ServicesFrame

\* time passes
Elapse(d) ==
    /\ elapsed < MaxElapsed
    /\ elapsed' = elapsed + 1
    /\ now' = now + d
    /\ UNCHANGED <<KV_API_KEY, KV_CREDITS, KV_USAGE, apiKeyCache, inv, tracker, calls>>
    /\ ServicesFrame

\* the store applies the write of an admin update that deactivates the key
\* (updateApiKeyConfig with active: false)
StoreKeyDeactivated(apiKey) ==
    /\ KV_API_KEY[apiKey].exists
    /\ KV_API_KEY[apiKey].active
    /\ KV_API_KEY' = [KV_API_KEY EXCEPT ![apiKey].active = FALSE]
    /\ UNCHANGED <<now, KV_CREDITS, serviceVars>>
    /\ ServicesFrame

\* the store applies the delete of an admin delete (deleteApiKeyConfig)
StoreKeyDeleted(apiKey) ==
    /\ KV_API_KEY[apiKey].exists
    /\ KV_API_KEY' = [KV_API_KEY EXCEPT ![apiKey] = NoConfig]
    /\ UNCHANGED <<now, KV_CREDITS, serviceVars>>
    /\ ServicesFrame

\* ------------------------------------------------- numbers and JSON of JS

JsNumber(n) == [type |-> "number", value |-> n]
JsNaN == [type |-> "NaN"]
JsUndefined == [type |-> "undefined"]
JsNull == [type |-> "null"]
JsObject(balance) == [type |-> "object", balance |-> balance]

\* ToNumber of the values met here: null is 0, undefined and objects are NaN
ToNumber(v) ==
    IF v.type = "number" THEN v ELSE IF v.type = "null" THEN JsNumber(0) ELSE JsNaN

\* a < b: false when either side is NaN
JsLess(a, b) ==
    /\ ToNumber(a).type = "number"
    /\ ToNumber(b).type = "number"
    /\ ToNumber(a).value < ToNumber(b).value

\* a - b
JsMinus(a, b) ==
    IF ToNumber(a).type = "number" /\ ToNumber(b).type = "number"
    THEN JsNumber(ToNumber(a).value - ToNumber(b).value)
    ELSE JsNaN

\* truthiness of a value
JsTruthy(v) ==
    \/ v.type = "object"
    \/ v.type = "number" /\ v.value # 0

\* the property balance of a value: undefined on a number
BalanceOf(v) == IF v.type = "object" THEN v.balance ELSE JsUndefined

\* a text that starts as a number does
IsNumberText(s) ==
    /\ s # NULL
    /\ s # <<>>
    /\ \/ IsDigit(Head(s))
       \/ Head(s) = "-" /\ Len(s) > 1 /\ IsDigit(s[2])

\* parseInt as a value
ParseInt(s) == IF IsNumberText(s) THEN JsNumber(parseInt(s)) ELSE JsNaN

BalancePrefix == <<"{", "\"", "b", "a", "l", "a", "n", "c", "e", "\"", ":">>

UpdatedPrefix ==
    <<",", "\"", "l", "a", "s", "t", "U", "p", "d", "a", "t", "e", "d", "\"", ":", "\"">>

NullText == <<"n", "u", "l", "l">>

\* JSON.stringify of a number: NaN is written as null
JsonNumber(v) == IF v.type = "number" THEN toString(v.value) ELSE NullText

\* JSON.stringify({balance, lastUpdated: new Date().toISOString()}), the time
\* written in milliseconds
JsonCredits(balance, t) ==
    BalancePrefix \o JsonNumber(balance) \o UpdatedPrefix \o toString(t) \o <<"\"", "}">>

\* KV get with type json of the texts the credits records hold: a credits
\* object, a bare number, no record; getValue gives null for a text that is no
\* JSON
GetJson(text) ==
    IF text = NULL THEN JsNull
    ELSE IF StartsWith(text, BalancePrefix)
    THEN LET rest == Drop(text, Len(BalancePrefix))
         IN  JsObject(IF IsNumberText(rest) THEN JsNumber(parseInt(rest)) ELSE JsNull)
    ELSE IF IsNumberText(text) /\ toString(parseInt(text)) = text
    THEN JsNumber(parseInt(text))
    ELSE JsNull

\* (await KeyPrefixes.CREDITS.get<CreditData>(clientId, env)) || {balance: 0, ...}
CreditData(text) == IF JsTruthy(GetJson(text)) THEN GetJson(text) ELSE JsObject(JsNumber(0))

\* --------------------------------- processCredits on the structured record

\* { success: false, remaining: creditData.balance }
Refused(balance) == [success |-> FALSE, remaining |-> balance]

\* { success: true, remaining: newBalance, used: cost }
Debited(balance, cost) == [success |-> TRUE, remaining |-> balance, used |-> JsNumber(cost)]

ProcessCreditsCall(s, clientId, cost) ==
    /\ inv[s].pc \in {"idle", "returned"}
    /\ calls < MaxCalls
    /\ calls' = calls + 1
    /\ inv' = [inv EXCEPT ![s] = [NoInv EXCEPT !.op = "processCredits",
                                               !.pc = "CREDITS.get",
                                               !.clientId = clientId, !.cost = cost,
                                               !.call = calls + 1]]
    /\ UNCHANGED <<now, KV_API_KEY, KV_CREDITS, KV_USAGE, apiKeyCache, tracker, elapsed>>
    /\ ServicesFrame

\* the store answers the read of the credits record: with too small a balance
\* processCredits returns, else the write of the new record is sent
ProcessCreditsRead(s) ==
    /\ inv[s].pc = "CREDITS.get"
    /\ LET balance == BalanceOf(CreditData(KV_CREDITS[inv[s].clientId]))
       IN  IF JsLess(balance, JsNumber(inv[s].cost))
           THEN Returns(s, [credit |-> Refused(balance)])
           ELSE inv' = [inv EXCEPT ![s].pc = "CREDITS.put",
                                   ![s].newBalance = JsMinus(balance, JsNumber(inv[s].cost))]
    /\ UNCHANGED <<now, KV_API_KEY, KV_CREDITS, KV_USAGE, apiKeyCache, tracker, calls,
                   elapsed>>
    /\ ServicesFrame

\* the store applies the write; processCredits starts the tracking of the
\* usage and returns
ProcessCreditsWrite(s) ==
    /\ inv[s].pc = "CREDITS.put"
    /\ KV_CREDITS' = [KV_CREDITS EXCEPT
                         ![inv[s].clientId] = JsonCredits(inv[s].newBalance, now)]
    /\ Spawn(inv[s].call, UsageKey(inv[s].clientId, now), inv[s].cost)
    /\ Returns(s, [credit |-> Debited(inv[s].newBalance, inv[s].cost)])
    /\ UNCHANGED <<now, KV_API_KEY, KV_USAGE, apiKeyCache, calls, elapsed>>
    /\ ServicesFrame

\* ------------------------------------- trackApiKeyUsage and trackUsage

\* parseInt((await ...get(key)) || '0')
CurrentUsage(kv, name) ==
    IF Truthy(KvGet(kv, name)) THEN parseInt(KvGet(kv, name)) ELSE 0

\* the store answers the read of the counter
TrackGet(i) ==
    /\ tracker[i].pc = "get"
    /\ tracker' = [tracker EXCEPT ![i].pc = "put",
                                  ![i].currentUsage = CurrentUsage(KV_USAGE, tracker[i].name)]
    /\ UNCHANGED <<now, KV_API_KEY, KV_CREDITS, KV_USAGE, apiKeyCache, inv, calls, elapsed>>
    /\ ServicesFrame

\* a failed read that reaches the caller, as where the tracking is awaited
TrackGetFails_Surfaces(i) ==
    /\ tracker[i].pc = "get"
    /\ tracker' = [tracker EXCEPT ![i].pc = "failed"]
    /\ inv' = [s \in Callers |->
                  IF inv[s].call = i
                  THEN [inv[s] EXCEPT !.keyData = NoConfig, !.credit = NoCredit]
                  ELSE inv[s]]
    /\ UNCHANGED <<now, KV_API_KEY, KV_CREDITS, KV_USAGE, apiKeyCache, calls, elapsed>>
    /\ ServicesFrame

\* the read of the counter fails: getString of the key usage gives null and
\* the count starts again, the get of the client usage throws into the catch
\* of trackUsage
TrackGetFails(i) ==
    /\ tracker[i].pc = "get"
    /\ tracker' = IF tracker[i].name[1] = "keyusage"
                  THEN [tracker EXCEPT ![i].pc = "put", ![i].currentUsage = 0]
                  ELSE [tracker EXCEPT ![i].pc = "failed"]
    /\ UNCHANGED <<now, KV_API_KEY, KV_CREDITS, KV_USAGE, apiKeyCache, inv, calls, elapsed>>
    /\ ServicesFrame

\* the store applies the write of the counter
TrackPut(i) ==
    /\ tracker[i].pc = "put"
    /\ KV_USAGE' = KvPut(KV_USAGE, tracker[i].name,
                         toString(tracker[i].currentUsage + tracker[i].amount))
    /\ tracker' = [tracker EXCEPT ![i].pc = "done"]
    /\ UNCHANGED <<now, KV_API_KEY, KV_CREDITS, apiKeyCache, inv, calls, elapsed>>
    /\ ServicesFrame

\* the write of the counter fails: putString gives false, the put of the
\* client usage throws into the catch of trackUsage
TrackPutFails(i) ==
    /\ tracker[i].pc = "put"
    /\ tracker' = [tracker EXCEPT ![i].pc = "failed"]
    /\ UNCHANGED <<now, KV_API_KEY, KV_CREDITS, KV_USAGE, apiKeyCache, inv, calls, elapsed>>
    /\ ServicesFrame

\* the balances of the structured records at the start: 6 for c1, no record
\* for c2
InitialCreditData == [c \in Clients |-> IF c = "c1" THEN JsonCredits(JsNumber(6), 0) ELSE NULL]

\* no service is called
IdleServices ==
    /\ apiKeyCache = [k \in ApiKeys |-> NoEntry]
    /\ inv = [s \in Callers |-> NoInv]
    /\ tracker = [i \in 1..MaxCalls |-> NoTracker]
    /\ calls = 0
    /\ KV_USAGE = <<>>
    /\ elapsed = 0

\* ------------------------------------- the two processCredits side by side

\* targetConfig.costInfo.cost and getEndpointCost(endpoint) of the debits
DebitCosts == {1, 2, 5}

\* the credits record as a bare numeric string
BareCredits(balance) == toString(balance)

\* processCredits on the bare numeric string, run without another request in
\* between: the result and the text stored afterwards
DebitBare(text, cost) ==
    LET clientBalance == ClientBalance(text)
    IN  IF Insufficient(cost, clientBalance)
        THEN [result |-> [success |-> FALSE, remaining |-> JsNumber(clientBalance),
                          used |-> JsNumber(0)],
              text   |-> text]
        ELSE [result |-> [success |-> TRUE, remaining |-> JsNumber(clientBalance - cost),
                          used |-> JsNumber(cost)],
              text   |-> toString(clientBalance - cost)]

\* processCredits on the structured record, run without another request in
\* between: the result and the text stored afterwards
DebitStructured(text, cost, t) ==
    LET balance == BalanceOf(CreditData(text))
    IN  IF JsLess(balance, JsNumber(cost))
        THEN [result |-> Refused(balance), text |-> text]
        ELSE [result |-> Debited(JsMinus(balance, JsNumber(cost)), cost),
              text   |-> JsonCredits(JsMinus(balance, JsNumber(cost)), t)]

\* the balance a bare record stands for: balance ? parseInt(balance) : 0
BareBalance(text) == JsNumber(ClientBalance(text))

\* the balance a structured record stands for
StructuredBalance(text) == BalanceOf(CreditData(text))

NoDebitResult == [success |-> FALSE, remaining |-> JsNull]

\* no pair of records is being compared
NoDebit == [balance |-> 0, cost |-> 0, bare |-> NULL, structured |-> NULL,
            bareRan |-> FALSE, structuredRan |-> FALSE,
            bareResult |-> NoDebitResult, structuredResult |-> NoDebitResult]

\* one balance stored in both representations, or in neither, and one cost
DebitInputs ==
    { [NoDebit EXCEPT !.balance = b, !.cost = c, !.bare = BareCredits(b),
                      !.structured = JsonCredits(JsNumber(b), 0)] :
          b \in 0..MaxBalance, c \in DebitCosts }
    \cup { [NoDebit EXCEPT !.cost = c] : c \in DebitCosts }

\* processCredits of the gateway runs on the bare record
ProcessCreditsBare ==
    /\ ~debit.bareRan
    /\ debit' = [debit EXCEPT !.bareRan = TRUE,
                              !.bareResult = DebitBare(debit.bare, debit.cost).result,
                              !.bare = DebitBare(debit.bare, debit.cost).text]
    /\ UNCHANGED <<now, KV_API_KEY, KV_CREDITS, gatewayVars, adminVars, targetVars,
                   serviceVars, manageVars, findVars>>

\* processCredits of the credits service runs on the structured record
ProcessCreditsStructured ==
    /\ ~debit.structuredRan
    /\ debit' = [debit EXCEPT
                    !.structuredRan = TRUE,
                    !.structuredResult = DebitStructured(debit.structured, debit.cost, now).result,
                    !.structured = DebitStructured(debit.structured, debit.cost, now).text]
    /\ UNCHANGED <<now, KV_API_KEY, KV_CREDITS, gatewayVars, adminVars, targetVars,
                   serviceVars, manageVars, findVars>>

\* ------------------------------------------------ the admin's key service

\* admin requests that can be in flight together
Admins == {1, 2}

\* generateApiKey(): keys that no record holds yet
FreshKeys == {"key-b", "key-c"}

\* the keys the admin deletes, one of them without a record
DeletedKeys == {"key-a", "key-b", "key-none"}

\* names of the store, ':' between the segments: `client:${id}`
ClientName(clientId) == <<"client", clientId>>

\* `client:keys:${clientId}`, the name under which the key service keeps the
\* list of a client's keys
ClientKeysName(clientId) == <<"client", "keys", clientId>>

CLIENT_LIST_KEY == <<"clients", "list">>

KvHas(kv, name) == name \in DOMAIN kv

KvDelete(kv, name) == [n \in DOMAIN kv \ {name} |-> kv[n]]

\* (await get(name, {type: 'json'})) as string[] || []
KvList(kv, name) == IF KvHas(kv, name) THEN kv[name] ELSE <<>>

\* Array.prototype.includes
ListIncludes(list, x) == \E i \in 1..Len(list) : list[i] = x

\* list.filter(id => id !== x)
Without(list, x) == SelectSeq(list, LAMBDA id : id # x)

\* the fields a PUT body can carry
NoUpdates == [f \in {} |-> FALSE]

\* the key service's Map has no list for a client; timers counts the
\* setTimeout callbacks of getClientKeys that have not run yet
NoKeyList == [has |-> FALSE, keys |-> <<>>, timers |-> 0]

\* the admin client service's cache has no list
NoClientsList == [has |-> FALSE, list |-> <<>>]

\* no body of a POST /admin/clients
NoClientData == [name |-> <<>>, email |-> NULL]

\* an admin request that has not started
NoMgmt == [op |-> "", pc |-> "idle", clientId |-> "", apiKey |-> "",
           updates |-> NoUpdates, currentData |-> NoConfig, clientData |-> NoClientData,
           keys |-> <<>>, result |-> FALSE, status |-> 0]

ManageFrame ==
    UNCHANGED <<now, KV_CREDITS, gatewayVars, adminVars, targetVars, serviceVars, debit,
                findVars>>

\* an admin request arrives
Begins(a, op, fields) ==
    /\ mgmt[a].pc \in {"idle", "returned"}
    /\ mgmtOps < MaxManageOps
    /\ mgmtOps' = mgmtOps + 1
    /\ mgmt' = [mgmt EXCEPT ![a] = fields @@ [NoMgmt EXCEPT !.op = op]]

\* the operation goes on to its next await
Awaits(a, fields) == mgmt' = [mgmt EXCEPT ![a] = fields @@ mgmt[a]]

\* the operation returns
Ends(a, fields) == mgmt' = [mgmt EXCEPT ![a] = fields @@ [mgmt[a] EXCEPT !.pc = "returned"]]

\* clientKeysCache.delete(clientId)
Invalidated(cache, clientId) ==
    [cache EXCEPT ![clientId].has = FALSE, ![clientId].keys = <<>>]

\* createApiKey up to the write of the record: the key is generated and the
\* cached list of the client is dropped
CreateApiKeyCall(a, clientId, apiKey) ==
    /\ ~KV_API_KEY[apiKey].exists
    /\ \A b \in Admins : mgmt[b].apiKey = apiKey => mgmt[b].pc \in {"idle", "returned"}
    /\ Begins(a, "createApiKey", [pc |-> "KV_API_KEY.put", clientId |-> clientId,
                                  apiKey |-> apiKey])
    /\ clientKeysCache' = Invalidated(clientKeysCache, clientId)
    /\ UNCHANGED <<KV_API_KEY, APIKI_KV, clientsListCache>>
    /\ ManageFrame

\* the record is written; getClientKeys answers from the Map when it holds a
\* list, which push() then changes in place, and asks the store otherwise
CreateApiKeyPut(a) ==
    /\ mgmt[a].op = "createApiKey"
    /\ mgmt[a].pc = "KV_API_KEY.put"
    /\ KV_API_KEY' = [KV_API_KEY EXCEPT
                         ![mgmt[a].apiKey] = ApiKeyConfig(mgmt[a].clientId, "", TRUE, NullTime)]
    /\ LET cached == clientKeysCache[mgmt[a].clientId]
           pushed == Append(cached.keys, mgmt[a].apiKey)
       IN  IF cached.has
           THEN IF ListIncludes(cached.keys, mgmt[a].apiKey)
                THEN /\ Ends(a, [result |-> TRUE])
                     /\ UNCHANGED clientKeysCache
                ELSE /\ Awaits(a, [pc |-> "KV_CLIENT_KEYS.put", keys |-> pushed])
                     /\ clientKeysCache' =
                            [clientKeysCache EXCEPT ![mgmt[a].clientId].keys = pushed]
           ELSE /\ Awaits(a, [pc |-> "KV_CLIENT_KEYS.get"])
                /\ UNCHANGED clientKeysCache
    /\ UNCHANGED <<APIKI_KV, clientsListCache, mgmtOps>>
    /\ ManageFrame

\* deleteApiKey up to the read of the record
DeleteApiKeyCall(a, apiKey) ==
    /\ Begins(a, "deleteApiKey", [pc |-> "KV_API_KEY.get", apiKey |-> apiKey])
    /\ UNCHANGED <<KV_API_KEY, APIKI_KV, clientKeysCache, clientsListCache>>
    /\ ManageFrame

\* the record is read: false without one
DeleteApiKeyRead(a) ==
    /\ mgmt[a].op = "deleteApiKey"
    /\ mgmt[a].pc = "KV_API_KEY.get"
    /\ IF KV_API_KEY[mgmt[a].apiKey].exists
       THEN Awaits(a, [pc |-> "KV_API_KEY.delete",
                       clientId |-> KV_API_KEY[mgmt[a].apiKey].clientId])
       ELSE Ends(a, [result |-> FALSE])
    /\ UNCHANGED <<KV_API_KEY, APIKI_KV, clientKeysCache, clientsListCache, mgmtOps>>
    /\ ManageFrame

\* the record is deleted, the cached list is dropped and getClientKeys asks
\* the store
DeleteApiKeyDelete(a) ==
    /\ mgmt[a].op = "deleteApiKey"
    /\ mgmt[a].pc = "KV_API_KEY.delete"
    /\ KV_API_KEY' = [KV_API_KEY EXCEPT ![mgmt[a].apiKey] = NoConfig]
    /\ clientKeysCache' = Invalidated(clientKeysCache, mgmt[a].clientId)
    /\ Awaits(a, [pc |-> "KV_CLIENT_KEYS.get"])
    /\ UNCHANGED <<APIKI_KV, clientsListCache, mgmtOps>>
    /\ ManageFrame

\* getClientKeys past its read: the list of the store, or an empty one
GetClientKeys(kv, clientId) == KvList(kv, ClientKeysName(clientId))

\* the store answers getClientKeys: the list is put in the Map and a timer
\* is set; createApiKey pushes its key onto that same list and writes it,
\* deleteApiKey writes a filtered copy when the key was in it
ClientKeysRead(a) ==
    /\ mgmt[a].pc = "KV_CLIENT_KEYS.get"
    /\ LET clientId == mgmt[a].clientId
           clientKeys == GetClientKeys(APIKI_KV, clientId)
           pushed == Append(clientKeys, mgmt[a].apiKey)
           updatedKeys == Without(clientKeys, mgmt[a].apiKey)
           cached(keys) == [clientKeysCache EXCEPT
                               ![clientId] = [has |-> TRUE, keys |-> keys,
                                              timers |-> @.timers + 1]]
       IN  IF mgmt[a].op = "createApiKey"
           THEN IF ListIncludes(clientKeys, mgmt[a].apiKey)
                THEN /\ Ends(a, [result |-> TRUE])
                     /\ clientKeysCache' = cached(clientKeys)
                ELSE /\ Awaits(a, [pc |-> "KV_CLIENT_KEYS.put", keys |-> pushed])
                     /\ clientKeysCache' = cached(pushed)
           ELSE /\ clientKeysCache' = cached(clientKeys)
                /\ IF Len(clientKeys) # Len(updatedKeys)
                   THEN Awaits(a, [pc |-> "KV_CLIENT_KEYS.put", keys |-> updatedKeys])
                   ELSE Ends(a, [result |-> TRUE])
    /\ UNCHANGED <<KV_API_KEY, APIKI_KV, clientsListCache, mgmtOps>>
    /\ ManageFrame

\* KV_CLIENT_KEYS.put takes effect with the list as it was when put was called
ClientKeysWrite(a) ==
    /\ mgmt[a].pc = "KV_CLIENT_KEYS.put"
    /\ APIKI_KV' = KvPut(APIKI_KV, ClientKeysName(mgmt[a].clientId), mgmt[a].keys)
    /\ Ends(a, [result |-> TRUE])
    /\ UNCHANGED <<KV_API_KEY, clientKeysCache, clientsListCache, mgmtOps>>
    /\ ManageFrame

\* a timer of getClientKeys runs: clientKeysCache.delete(clientId)
ClientKeysTimeout(clientId) ==
    /\ clientKeysCache[clientId].timers > 0
    /\ clientKeysCache' = [clientKeysCache EXCEPT
                              ![clientId] = [has |-> FALSE, keys |-> <<>>,
                                             timers |-> @.timers - 1]]
    /\ UNCHANGED <<KV_API_KEY, APIKI_KV, clientsListCache, mgmt, mgmtOps>>
    /\ ManageFrame

\* --------------------------------------------- the admin's client service

\* `client:${clientId}:keys`, the name under which deleteClient looks for
\* the list of a client's keys
DeleteClientKeysName(clientId) == <<"client", clientId, "keys">>

\* the record of a client
ClientData(clientId) == [id |-> clientId, plan |-> "free"]

\* deleteClient up to the read of the client
DeleteClientCall(a, clientId) ==
    /\ Begins(a, "deleteClient", [pc |-> "CLIENT.get", clientId |-> clientId])
    /\ UNCHANGED <<KV_API_KEY, APIKI_KV, clientKeysCache, clientsListCache>>
    /\ ManageFrame

\* the client is read: false without one
DeleteClientRead(a) ==
    /\ mgmt[a].op = "deleteClient"
    /\ mgmt[a].pc = "CLIENT.get"
    /\ IF KvHas(APIKI_KV, ClientName(mgmt[a].clientId))
       THEN Awaits(a, [pc |-> "CLIENT.delete"])
       ELSE Ends(a, [result |-> FALSE])
    /\ UNCHANGED <<KV_API_KEY, APIKI_KV, clientKeysCache, clientsListCache, mgmtOps>>
    /\ ManageFrame

\* with the list of clients in hand: it is written when the client was in it,
\* and the list of the client's keys is asked for otherwise
ClientsListKnown(a, clientsList) ==
    LET updatedList == Without(clientsList, mgmt[a].clientId)
    IN  IF Len(clientsList) # Len(updatedList)
        THEN Awaits(a, [pc |-> "clients:list.put", keys |-> updatedList])
        ELSE Awaits(a, [pc |-> "client:keys.get"])

\* the client's record is deleted; the list of clients comes from the cache
\* or is asked of the store
DeleteClientDelete(a) ==
    /\ mgmt[a].op = "deleteClient"
    /\ mgmt[a].pc = "CLIENT.delete"
    /\ APIKI_KV' = KvDelete(APIKI_KV, ClientName(mgmt[a].clientId))
    /\ IF clientsListCache.has
       THEN ClientsListKnown(a, clientsListCache.list)
       ELSE Awaits(a, [pc |-> "clients:list.get"])
    /\ UNCHANGED <<KV_API_KEY, clientKeysCache, clientsListCache, mgmtOps>>
    /\ ManageFrame

\* the store answers with the list of clients
DeleteClientListRead(a) ==
    /\ mgmt[a].pc = "clients:list.get"
    /\ ClientsListKnown(a, KvList(APIKI_KV, CLIENT_LIST_KEY))
    /\ UNCHANGED <<KV_API_KEY, APIKI_KV, clientKeysCache, clientsListCache, mgmtOps>>
    /\ ManageFrame

\* the list without the client is written and cached
DeleteClientListWrite(a) ==
    /\ mgmt[a].pc = "clients:list.put"
    /\ APIKI_KV' = KvPut(APIKI_KV, CLIENT_LIST_KEY, mgmt[a].keys)
    /\ clientsListCache' = [has |-> TRUE, list |-> mgmt[a].keys]
    /\ Awaits(a, [pc |-> "client:keys.get", keys |-> <<>>])
    /\ UNCHANGED <<KV_API_KEY, clientKeysCache, mgmtOps>>
    /\ ManageFrame

\* the store answers with the list of the client's keys: the records of the
\* keys in it are deleted, then the list, and deleteClient returns true. The
\* deletes are awaited one after the other behind Promise.all; they are one
\* step here, no operation of the service storing a list under this name.
DeleteClientKeysRead(a) ==
    /\ mgmt[a].pc = "client:keys.get"
    /\ LET clientKeysKey == DeleteClientKeysName(mgmt[a].clientId)
           clientKeys == KvList(APIKI_KV, clientKeysKey)
       IN  IF Len(clientKeys) > 0
           THEN /\ KV_API_KEY' = [k \in ApiKeys |->
                                     IF ListIncludes(clientKeys, k) THEN NoConfig
                                     ELSE KV_API_KEY[k]]
                /\ APIKI_KV' = KvDelete(APIKI_KV, clientKeysKey)
           ELSE UNCHANGED <<KV_API_KEY, APIKI_KV>>
    /\ Ends(a, [result |-> TRUE])
    /\ UNCHANGED <<clientKeysCache, clientsListCache, mgmtOps>>
    /\ ManageFrame

\* the cached list of clients is older than its 5 minutes: the next get of
\* the cache finds nothing
ClientsListExpires ==
    /\ clientsListCache.has
    /\ clientsListCache' = NoClientsList
    /\ UNCHANGED <<KV_API_KEY, APIKI_KV, clientKeysCache, mgmt, mgmtOps>>
    /\ ManageFrame

\* ------------------------------------------ the admin's handlers of records

\* the bodies of PUT /admin/api-keys/:id
UpdateBodies ==
    {[active |-> FALSE],
     [expiresAt |-> 70000],
     [expiresAt |-> 5],
     [clientId |-> "c2"],
     [active |-> TRUE, targetId |-> "complex-target"]}

\* the keys and clients the handlers are asked about
HandledKeys == {"key-a", "key-none"}
HandledClients == {"c1", "c-none"}

OneMinute == 60000

\* 31536000000 ms, a year, in seconds
OneYearSeconds == 31536000

\* validateApiKeyConfig(config, true) of a body whose active, when there is
\* one, is a boolean and whose expiresAt is a number: the message, or "null"
validateApiKeyConfig(config, t) ==
    IF "expiresAt" \in DOMAIN config /\ config.expiresAt # 0
    THEN LET expiresAtValue == config.expiresAt
             ahead == expiresAtValue - t
         IN  CASE expiresAtValue < t -> "Expires At cannot be in the past"
               [] expiresAtValue >= t
                    /\ (\/ ahead \div 1000 > OneYearSeconds
                        \/ ahead \div 1000 = OneYearSeconds /\ ahead % 1000 > 0)
                    -> "Expires At cannot be more than 1 year from now"
               [] expiresAtValue >= t /\ expiresAtValue < t + OneMinute
                    -> "Expires At cannot be less than 1 minute from now"
               [] OTHER -> "null"
    ELSE "null"

\* { ...currentData, ...updates } on the fields of a record
Spread(currentData, updates) ==
    [f \in DOMAIN currentData |->
        IF f \in DOMAIN updates THEN updates[f] ELSE currentData[f]]

\* a status that does not depend on what was found
GetStatus_AlwaysOk(found) == 200

\* the status of a GET: successResponse, or errorResponse(404, ...)
GetStatus(found) == IF found THEN 200 ELSE 404

\* GET /admin/api-keys/:id
GetApiKeyRequest(a, apiKey) ==
    /\ Begins(a, "GET api-key", [pc |-> "returned", apiKey |-> apiKey,
                                 status |-> GetStatus(KV_API_KEY[apiKey].exists)])
    /\ UNCHANGED <<KV_API_KEY, APIKI_KV, clientKeysCache, clientsListCache>>
    /\ ManageFrame

\* GET /admin/clients/:id
GetClientRequest(a, clientId) ==
    /\ Begins(a, "GET client", [pc |-> "returned", clientId |-> clientId,
                                status |-> GetStatus(KvHas(APIKI_KV, ClientName(clientId)))])
    /\ UNCHANGED <<KV_API_KEY, APIKI_KV, clientKeysCache, clientsListCache>>
    /\ ManageFrame

\* PUT /admin/api-keys/:id up to updateApiKeyConfig's read: 400 for a body
\* that does not pass the validation
PutApiKeyRequest(a, apiKey, updates) ==
    /\ IF validateApiKeyConfig(updates, now) # "null"
       THEN Begins(a, "PUT api-key", [pc |-> "returned", apiKey |-> apiKey,
                                      updates |-> updates, status |-> 400])
       ELSE Begins(a, "PUT api-key", [pc |-> "KV_API_KEY.get", apiKey |-> apiKey,
                                      updates |-> updates])
    /\ UNCHANGED <<KV_API_KEY, APIKI_KV, clientKeysCache, clientsListCache>>
    /\ ManageFrame

\* the record is read: 404 without one
PutApiKeyRead(a) ==
    /\ mgmt[a].op = "PUT api-key"
    /\ mgmt[a].pc = "KV_API_KEY.get"
    /\ IF KV_API_KEY[mgmt[a].apiKey].exists
       THEN Awaits(a, [pc |-> "KV_API_KEY.put", currentData |-> KV_API_KEY[mgmt[a].apiKey]])
       ELSE Ends(a, [status |-> 404])
    /\ UNCHANGED <<KV_API_KEY, APIKI_KV, clientKeysCache, clientsListCache, mgmtOps>>
    /\ ManageFrame

\* the record with the body spread over it is written
PutApiKeyWrite(a) ==
    /\ mgmt[a].op = "PUT api-key"
    /\ mgmt[a].pc = "KV_API_KEY.put"
    /\ KV_API_KEY' = [KV_API_KEY EXCEPT
                         ![mgmt[a].apiKey] = Spread(mgmt[a].currentData, mgmt[a].updates)]
    /\ Ends(a, [status |-> 200])
    /\ UNCHANGED <<APIKI_KV, clientKeysCache, clientsListCache, mgmtOps>>
    /\ ManageFrame

\* --------------------------------------------- the creation of a client

Upper == <<"A", "B">>
Lower == <<"a", "b">>

\* String.prototype.toLowerCase on the letters of the model's emails
ToLowerCase(s) ==
    [i \in 1..Len(s) |->
        IF \E j \in 1..Len(Upper) : Upper[j] = s[i]
        THEN Lower[CHOOSE j \in 1..Len(Upper) : Upper[j] = s[i]]
        ELSE s[i]]

\* the bodies of POST /admin/clients: a@x in two spellings, another email,
\* no email, and no name
ClientInputs ==
    {[name |-> <<"n">>, email |-> <<"a", "@", "x">>],
     [name |-> <<"n">>, email |-> <<"A", "@", "x">>],
     [name |-> <<"n">>, email |-> <<"b", "@", "x">>],
     [name |-> <<"n">>, email |-> NULL],
     [name |-> <<>>, email |-> <<"a", "@", "x">>]}

\* `email:${normalizedEmail}` and `credits:${clientId}`
EmailName(normalizedEmail) == <<"email", normalizedEmail>>
CreditsName(clientId) == <<"credits", clientId>>

\* the names of the client records in the store
ClientNames(kv) == {n \in DOMAIN kv : n[1] = "client"}

\* crypto.randomUUID(): an id that no client has and no request holds
Uuid(n) == "u-" \o ToString(n)

RandomUUID(kv, requests) ==
    Uuid(1 + Cardinality(ClientNames(kv))
           + Cardinality({a \in Admins : requests[a].op = "POST client"
                                         /\ requests[a].pc = "client.put"}))

\* the client record createClient stores
Client(clientId, normalizedEmail) ==
    [id |-> clientId, plan |-> "free", email |-> normalizedEmail]

\* planCredits[plan] || 100 for the plan 'free'
PlanCredits == 100

\* isEmailRegistered
IsEmailRegistered(kv, email) == KvHas(kv, EmailName(ToLowerCase(email)))

\* POST /admin/clients up to the first read of the store: 400 without a
\* name; with an email isEmailRegistered asks the store; without one
\* createClient throws at email.toLowerCase() and the handler answers 400
PostClientRequest(a, clientData) ==
    /\ IF ~Truthy(clientData.name)
       THEN Begins(a, "POST client", [pc |-> "returned", clientData |-> clientData,
                                      status |-> 400])
       ELSE IF Truthy(clientData.email)
       THEN Begins(a, "POST client", [pc |-> "email.get", clientData |-> clientData])
       ELSE Begins(a, "POST client", [pc |-> "returned", clientData |-> clientData,
                                      status |-> 400])
    /\ UNCHANGED <<KV_API_KEY, APIKI_KV, clientKeysCache, clientsListCache>>
    /\ ManageFrame

\* the store answers isEmailRegistered: 409 for a registered email,
\* otherwise createClient draws its id and puts the client
PostClientCheck(a) ==
    /\ mgmt[a].op = "POST client"
    /\ mgmt[a].pc = "email.get"
    /\ IF IsEmailRegistered(APIKI_KV, mgmt[a].clientData.email)
       THEN Ends(a, [status |-> 409])
       ELSE Awaits(a, [pc |-> "client.put", clientId |-> RandomUUID(APIKI_KV, mgmt)])
    /\ UNCHANGED <<KV_API_KEY, APIKI_KV, clientKeysCache, clientsListCache, mgmtOps>>
    /\ ManageFrame

\* put(`client:${clientId}`, ...) with the email in lower case
PostClientPut(a) ==
    /\ mgmt[a].op = "POST client"
    /\ mgmt[a].pc = "client.put"
    /\ APIKI_KV' = KvPut(APIKI_KV, ClientName(mgmt[a].clientId),
                         Client(mgmt[a].clientId, ToLowerCase(mgmt[a].clientData.email)))
    /\ Awaits(a, [pc |-> "email.put"])
    /\ UNCHANGED <<KV_API_KEY, clientKeysCache, clientsListCache, mgmtOps>>
    /\ ManageFrame

\* put(`email:${normalizedEmail}`, clientId)
PostEmailPut(a) ==
    /\ mgmt[a].op = "POST client"
    /\ mgmt[a].pc = "email.put"
    /\ APIKI_KV' = KvPut(APIKI_KV, EmailName(ToLowerCase(mgmt[a].clientData.email)),
                         mgmt[a].clientId)
    /\ Awaits(a, [pc |-> "credits.put"])
    /\ UNCHANGED <<KV_API_KEY, clientKeysCache, clientsListCache, mgmtOps>>
    /\ ManageFrame

\* put(`credits:${clientId}`, ...) and the answer 201
PostCreditsPut(a) ==
    /\ mgmt[a].op = "POST client"
    /\ mgmt[a].pc = "credits.put"
    /\ APIKI_KV' = KvPut(APIKI_KV, CreditsName(mgmt[a].clientId),
                         JsonCredits(JsNumber(PlanCredits), now))
    /\ Ends(a, [status |-> 201])
    /\ UNCHANGED <<KV_API_KEY, clientKeysCache, clientsListCache, mgmtOps>>
    /\ ManageFrame

\* no admin request has been made and the admin's store is empty
IdleManage ==
    /\ APIKI_KV = <<>>
    /\ clientKeysCache = [c \in Clients |-> NoKeyList]
    /\ clientsListCache = NoClientsList
    /\ mgmt = [a \in Admins |-> NoMgmt]
    /\ mgmtOps = 0

\* ------------------------------------------- the targets of the store

\* the ids of targets:list
StoredTargetIds == {"t0", "t1", "t2"}

\* findTargetConfig is not being called
NoFind == [pc |-> "idle", service |-> "", path |-> <<>>, targetsList |-> <<>>, i |-> 0,
           found |-> FALSE, config |-> NoTarget]

\* no request is with the handler
NoDynamic == [pc |-> "idle", request |-> NoRequest, base |-> 0, clientId |-> "",
              cost |-> 0, status |-> 0, url |-> <<>>, stored |-> <<>>]

\* the target service is not at work
IdleFind ==
    /\ targetsListCache = [k \in {"targets:list"} |-> NoEntry]
    /\ targetCache = [t \in StoredTargetIds |-> NoEntry]
    /\ find = NoFind
    /\ dynamic = NoDynamic

\* 'targets:list', the name getValue is asked for by the service with caches
TARGETS_LIST == <<"targets", "list">>

\* KV_TARGET.key(id) and KeyPrefixes.TARGET.key(id): `target:${id}`
TargetName(id) == <<"target">> \o id

\* the descriptors the store can hold: t1 is a wildcard, t2 a regular
\* expression that matches fewer paths, and t0 has no descriptor
StoredTarget(id) ==
    IF id = "t1"
    THEN [id |-> "t1", pattern |-> <<"/", "a", "p", "i", "/", "*">>, isRegex |-> FALSE,
          targetUrl |-> ApiBackendUrl]
    ELSE [id |-> "t2",
          pattern |-> <<"^", "/", "a", "p", "i", "/", "v", "1", "/", ".", "*", "$">>,
          isRegex |-> TRUE, targetUrl |-> ComplexApiUrl]

\* the lists of ids a store can hold
TargetLists == {<<>>, <<"t1", "t2">>, <<"t2", "t1">>, <<"t0", "t2">>}

\* a store with the list under the name listName and the descriptors of ids
TargetStore(kv, listName, list, ids) ==
    [n \in DOMAIN kv \cup {listName} \cup {TargetName(<<t>>) : t \in ids} |->
        IF n = listName THEN list
        ELSE IF n \in DOMAIN kv THEN kv[n]
        ELSE StoredTarget(n[2])]

\* the stores of targets: without a list, or with a list under 'targets:list'
\* or under the name KV_TARGET gives it, and with the descriptors of some ids
TargetStores(kv) ==
    LET described == {{}, {"t2"}, {"t1", "t2"}}
    IN  {TargetStore(kv, TARGETS_LIST, <<>>, ids) : ids \in described}
        \cup {[n \in DOMAIN kv |-> kv[n]]}
        \cup UNION {{TargetStore(kv, name, list, ids) : ids \in described, list \in TargetLists} :
                      name \in {TARGETS_LIST, TargetName(TARGETS_LIST)}}

\* matchTargetPattern of the services that keep their targets in the store:
\* a regular expression, a prefix before a final '*', or the path itself
matchStoredTargetPattern(path, config) ==
    IF config.isRegex
    THEN IF RegExpCompiles(config.pattern) THEN RegExpTest(config.pattern, path)
         ELSE FALSE
    ELSE IF EndsWith(config.pattern, <<"*">>)
    THEN StartsWith(path, DropLast(config.pattern))
    ELSE path = config.pattern

\* targetsListCache.set('targets:list', targetsList, 300000) and
\* targetCache.set(cacheKey, config, 300000)
TargetCacheTtl == 300000

\* the loop over targetsList from its entry i on, up to its next read of the
\* store or its return: a descriptor of the cache is matched at once
RECURSIVE Walk(_, _, _, _, _, _)
Walk(service, path, targetsList, i, cache, t) ==
    IF i > Len(targetsList)
    THEN [pc |-> "returned", i |-> i, found |-> FALSE, config |-> NoTarget, cache |-> cache]
    ELSE IF service = "plain"
    THEN [pc |-> "TARGET.get", i |-> i, found |-> FALSE, config |-> NoTarget, cache |-> cache]
    ELSE LET got == CacheGet(cache, targetsList[i], t)
         IN  IF ~got.found
             THEN [pc |-> "TARGET.get", i |-> i, found |-> FALSE, config |-> NoTarget,
                   cache |-> got.cache]
             ELSE IF matchStoredTargetPattern(path, got.value)
             THEN [pc |-> "returned", i |-> i, found |-> TRUE, config |-> got.value,
                   cache |-> got.cache]
             ELSE Walk(service, path, targetsList, i + 1, got.cache, t)

\* the call goes on as walked says
Walked(walked) ==
    /\ find' = [find EXCEPT !.pc = walked.pc, !.i = walked.i, !.found = walked.found,
                            !.config = walked.config]
    /\ targetCache' = walked.cache

\* what the target service leaves alone
FindFrame ==
    UNCHANGED <<now, KV_API_KEY, KV_CREDITS, gatewayVars, adminVars, targetVars,
                serviceVars, debit, manageVars, dynamic>>

\* findTargetConfig(path, env) up to its first read of the store: the
\* service without caches asks for the list, the one with caches asks its
\* targetsListCache first
FindTargetConfigCall(service, path) ==
    /\ find.pc \in {"idle", "returned"}
    /\ LET this == [NoFind EXCEPT !.service = service, !.path = path]
           got  == CacheGet(targetsListCache, "targets:list", now)
       IN  IF service = "plain"
           THEN /\ find' = [this EXCEPT !.pc = "list.get"]
                /\ UNCHANGED <<targetsListCache, targetCache>>
           ELSE /\ targetsListCache' = got.cache
                /\ IF ~got.found
                   THEN /\ find' = [this EXCEPT !.pc = "list.get"]
                        /\ UNCHANGED targetCache
                   ELSE LET walked == Walk(service, path, got.value, 1, targetCache, now)
                        IN  /\ find' = [this EXCEPT !.targetsList = got.value,
                                                    !.pc = walked.pc, !.i = walked.i,
                                                    !.found = walked.found,
                                                    !.config = walked.config]
                            /\ targetCache' = walked.cache
    /\ FindFrame

\* the store answers the read of the list: KV_TARGET.get('targets:list') of
\* the service without caches, getValue('targets:list') of the one with
\* caches, which keeps a list it was given
FindListRead ==
    /\ find.pc = "list.get"
    /\ LET name == IF find.service = "plain" THEN TargetName(TARGETS_LIST) ELSE TARGETS_LIST
       IN  IF ~KvHas(APIKI_KV, name)
           THEN /\ find' = [find EXCEPT !.pc = "returned"]
                /\ UNCHANGED <<targetsListCache, targetCache>>
           ELSE /\ targetsListCache' =
                       IF find.service = "plain" THEN targetsListCache
                       ELSE CacheSet(targetsListCache, "targets:list", APIKI_KV[name],
                                     TargetCacheTtl, now)
                /\ LET walked == Walk(find.service, find.path, APIKI_KV[name], 1,
                                      targetCache, now)
                   IN  /\ find' = [find EXCEPT !.targetsList = APIKI_KV[name],
                                               !.pc = walked.pc, !.i = walked.i,
                                               !.found = walked.found,
                                               !.config = walked.config]
                       /\ targetCache' = walked.cache
    /\ FindFrame

\* the store answers the read of a descriptor: an id without one is
\* skipped, a descriptor is kept by the service with caches and matched
FindDescriptorRead ==
    /\ find.pc = "TARGET.get"
    /\ LET id   == find.targetsList[find.i]
           name == TargetName(<<id>>)
       IN  IF ~KvHas(APIKI_KV, name)
           THEN Walked(Walk(find.service, find.path, find.targetsList, find.i + 1,
                            targetCache, now))
           ELSE LET config == APIKI_KV[name]
                    cache  == IF find.service = "plain" THEN targetCache
                              ELSE CacheSet(targetCache, id, config, TargetCacheTtl, now)
                IN  IF matchStoredTargetPattern(find.path, config)
                    THEN /\ find' = [find EXCEPT !.pc = "returned", !.found = TRUE,
                                                 !.config = config]
                         /\ targetCache' = cache
                    ELSE Walked(Walk(find.service, find.path, find.targetsList,
                                     find.i + 1, cache, now))
    /\ UNCHANGED targetsListCache
    /\ FindFrame

\* ------------------------------------------------- the store fails a call

\* a failed read of the key record that reaches the handler's catch
GetApiKeyConfigFails_Throws(r) ==
    /\ pc[r] = "getApiKeyConfig"
    /\ Respond(r, errorResponse(500, "Internal Server Error",
                                CreditHeaders(creditResult[r], requestId[r])))
    /\ UNCHANGED <<now, KV_API_KEY, KV_CREDITS, request, requestId, apiKeyConfig,
                   creditResult, newBalance, effects, started, spent,
                   adminVars, fetchRequest, targetVars, extraVars>>

\* the read of apikey:<key> fails: getValue catches the error and returns
\* null, which getApiKeyConfig hands to the handler
GetApiKeyConfigFails(r) ==
    /\ pc[r] = "getApiKeyConfig"
    /\ apiKeyConfig' = [apiKeyConfig EXCEPT ![r] = NoConfig]
    /\ pc' = [pc EXCEPT ![r] = "validate"]
    /\ UNCHANGED <<now, KV_API_KEY, KV_CREDITS, request, requestId, creditResult,
                   newBalance, response, effects, started, spent,
                   adminVars, fetchRequest, targetVars, extraVars>>

\* the read of credits:<clientId> fails: getStringValue catches the error and
\* returns null, which processCredits takes for a balance of 0
ProcessCreditsGetFails(r) ==
    /\ pc[r] = "processCredits"
    /\ LET cost          == TargetOf(r).costInfo.cost
           clientBalance == ClientBalance(NULL)
           failed        == [success |-> FALSE, remaining |-> clientBalance, used |-> 0]
       IN  IF Insufficient(cost, clientBalance)
           THEN /\ creditResult' = [creditResult EXCEPT ![r] = failed]
                /\ Respond(r, errorResponse(402, "Insufficient credits",
                                  InsufficientHeaders(failed, TargetOf(r), requestId[r])))
                /\ UNCHANGED <<newBalance, spent>>
           ELSE /\ newBalance' = [newBalance EXCEPT ![r] = clientBalance - cost]
                /\ pc' = [pc EXCEPT ![r] = "putString"]
                /\ UNCHANGED <<creditResult, spent, response>>
    /\ UNCHANGED <<now, KV_API_KEY, KV_CREDITS, request, requestId, apiKeyConfig,
                   effects, started, adminVars, fetchRequest, targetVars, extraVars>>

\* the write of the new balance fails: putStringValue catches the error and
\* returns false, which no caller looks at; processCredits returns success
\* and the handler sends the request to the backend
ProcessCreditsPutFails(r) ==
    /\ pc[r] = "putString"
    /\ LET clientId == apiKeyConfig[r].clientId
           result   == [success |-> TRUE, remaining |-> newBalance[r],
                        used |-> TargetOf(r).costInfo.cost]
       IN  /\ creditResult' = [creditResult EXCEPT ![r] = result]
           /\ spent' = [spent EXCEPT ![clientId] = @ + result.used]
    /\ effects' = [effects EXCEPT ![r].fetches = @ + 1]
    /\ fetchRequest' = [fetchRequest EXCEPT ![r] = FetchRequest(request[r], TargetOf(r))]
    /\ pc' = [pc EXCEPT ![r] = "fetch"]
    /\ UNCHANGED <<now, KV_API_KEY, KV_CREDITS, request, requestId, apiKeyConfig,
                   newBalance, response, started, adminVars, targetVars, extraVars>>

\* ------------------------------------------------------- the specification

\* no request is being served
IdleGateway ==
    /\ pc = [r \in Slots |-> "idle"]
    /\ request = [r \in Slots |-> NoRequest]
    /\ requestId = [r \in Slots |-> 0]
    /\ apiKeyConfig = [r \in Slots |-> NoConfig]
    /\ creditResult = [r \in Slots |-> NoResult]
    /\ newBalance = [r \in Slots |-> 0]
    /\ response = [r \in Slots |-> NoResponse]
    /\ effects = [r \in Slots |-> NoEffects]
    /\ started = 0
    /\ spent = [c \in Clients |-> 0]
    /\ adminPc = "idle"
    /\ adminRequest = NoAdminRequest
    /\ adminResponse = 0
    /\ adminOps = 0
    /\ fetchRequest = [r \in Slots |-> NoFetchRequest]

InitGateway ==
    /\ now = 1
    /\ KV_API_KEY = InitialApiKeys
    /\ KV_CREDITS = InitialCredits
    /\ IdleGateway

\* no call of the target service's functions is being looked at
NoCall == [path |-> <<>>, search |-> <<>>, config |-> NoTarget]

NoReturn == [stage |-> "called", matched |-> FALSE, relativePath |-> <<>>,
             cleanRelativePath |-> <<>>, targetUrl |-> <<>>]

\* nothing but the gateway is at work
IdleExtra == IdleServices /\ debit = NoDebit /\ IdleManage /\ IdleFind

Init == InitGateway /\ call = NoCall /\ ret = NoReturn /\ IdleExtra

Gateway ==
    \E r \in Slots :
        \/ \E rq \in InboundRequests : Start(r, rq)
        \/ GetApiKeyConfig(r)
        \/ Validate(r)
        \/ ProcessCreditsGet(r)
        \/ ProcessCreditsPut(r)
        \/ \E b \in BackendResponses : BackendResponds(r, b)
        \/ BackendFails(r)
        \/ Return(r)

Admin ==
    \/ \E c \in Clients, v \in CreditInputs : AdminPutCredits(c, v)
    \/ \E c \in Clients, v \in CreditInputs : AdminPostCreditsGet(c, v)
    \/ AdminPostCreditsPut

\* the gateway alone
Next == Gateway \/ Tick

Spec == Init /\ [][Next]_vars

\* the handler runs whenever it can and the store answers every call; the
\* handler puts no limit on the time the backend takes, and nothing makes a
\* backend answer or the connection to it fail
HandlerStep(r) ==
    \/ GetApiKeyConfig(r)
    \/ Validate(r)
    \/ ProcessCreditsGet(r)
    \/ ProcessCreditsPut(r)
    \/ Return(r)

Fairness == \A r \in Slots : WF_vars(HandlerStep(r))

SpecLive == Init /\ [][Next]_vars /\ Fairness

\* the gateway serving one request at a time
StartAlone(r, rq) == (\A q \in Slots : pc[q] = "idle") /\ Start(r, rq)

NextSeq ==
    \E r \in Slots :
        \/ \E rq \in InboundRequests : StartAlone(r, rq)
        \/ GetApiKeyConfig(r)
        \/ Validate(r)
        \/ ProcessCreditsGet(r)
        \/ ProcessCreditsPut(r)
        \/ \E b \in BackendResponses : BackendResponds(r, b)
        \/ BackendFails(r)
        \/ Return(r)

SpecSeq == Init /\ [][NextSeq]_vars

\* the gateway and the admin credit handlers
\* the inbound requests that reach the debit
DebitRequests ==
    {rq \in InboundRequests :
        rq.apiKey \in {"key-a", "key-b", "key-c"} /\ rq.path # PathOther}

StartDebit(r, rq) == started < MaxDebitRequests /\ Start(r, rq)

NextAdmin ==
    \/ \E r \in Slots :
           \/ \E rq \in DebitRequests : StartDebit(r, rq)
           \/ GetApiKeyConfig(r)
           \/ Validate(r)
           \/ ProcessCreditsGet(r)
           \/ ProcessCreditsPut(r)
           \/ \E b \in BackendResponses : BackendResponds(r, b)
           \/ BackendFails(r)
           \/ Return(r)
    \/ Admin

SpecAdmin == Init /\ [][NextAdmin]_vars

\* the gateway on a store whose calls can fail
NextFaults ==
    \/ \E r \in Slots :
           \/ \E rq \in DebitRequests : StartDebit(r, rq)
           \/ GetApiKeyConfig(r)
           \/ GetApiKeyConfigFails(r)
           \/ Validate(r)
           \/ ProcessCreditsGet(r)
           \/ ProcessCreditsGetFails(r)
           \/ ProcessCreditsPut(r)
           \/ ProcessCreditsPutFails(r)
           \/ \E b \in BackendResponses : BackendResponds(r, b)
           \/ BackendFails(r)
           \/ Return(r)
    \/ Tick

SpecFaults == Init /\ [][NextFaults]_vars

\* ------------------------------------------- the target service on its own

PathChars == {"/", "t", "x"}

\* url.pathname starts with '/'
PathsOfLen(n) == {<<"/">> \o s : s \in [1..(n - 1) -> PathChars]}

PathFooBar == <<"/", "f", "o", "o", "/", "b", "a", "r">>

PathTFooBar == <<"/", "t", "/", "f", "o", "o", "/", "b", "a", "r">>

ExamplePaths ==
    { <<"/", "a", "p", "i">>, <<"/", "a", "p", "i", "/">>, <<"/", "a", "p", "i", "/", "x">>,
      <<"/", "a", "p", "i", "x">>, PathTFooBar, PathApi, PathComplex }

Paths == (UNION {PathsOfLen(n) : n \in 1..MaxPathLen}) \cup ExamplePaths

\* url.search: none, or a query
Searches == {NoSearch, <<"?", "q">>}

BExampleUrl ==
    <<"h", "t", "t", "p", "s", ":", "/", "/", "b", ".", "e", "x", "a", "m", "p", "l", "e">>

Target(pattern, isRegex, targetUrl) ==
    [id |-> "t", pattern |-> pattern, isRegex |-> isRegex, targetUrl |-> targetUrl,
     costInfo |-> [cost |-> 1]]

PatternTStar == <<"/", "t", "/", "*">>
PatternApiStar == <<"/", "a", "p", "i", "/", "*">>

\* targets of every kind of pattern: wildcards (with and without a slash
\* before the '*', with a targetUrl with and without a trailing slash), a
\* trailing slash, an exact path, regular expressions of the shape
\* extractRelativePath looks for and of another shape, a pattern that does not
\* compile, and the targets of the table
TargetConfigs ==
    { Target(PatternTStar, FALSE, BExampleUrl),
      Target(PatternApiStar, FALSE, BExampleUrl \o <<"/">>),
      Target(<<"/", "*">>, FALSE, BExampleUrl),
      Target(<<"*">>, FALSE, BExampleUrl),
      Target(<<"/", "t", "*">>, FALSE, BExampleUrl),
      Target(<<"/", "t", "/">>, FALSE, BExampleUrl),
      Target(<<"/", "t", "/", "x">>, FALSE, BExampleUrl),
      Target(<<"^", "/", "t", "/", ".", "*", "$">>, TRUE, BExampleUrl),
      Target(<<"^", "/", "x", "$">>, TRUE, BExampleUrl),
      Target(BrokenPattern, TRUE, BExampleUrl) }
    \cup {targets[i] : i \in 1..Len(targets)}

InitTarget ==
    /\ InitGateway
    /\ call \in [path : Paths, search : Searches, config : TargetConfigs]
    /\ ret = NoReturn
    /\ IdleExtra

\* matchTargetPattern(path, targetConfig), line 51 of the handler
MatchTargetPattern ==
    /\ ret.stage = "called"
    /\ ret' = [ret EXCEPT !.stage = "matched",
                          !.matched = matchTargetPattern(call.path, call.config)]
    /\ UNCHANGED <<now, KV_API_KEY, KV_CREDITS, gatewayVars, adminVars, call, extraVars>>

\* extractRelativePath(path, targetConfig), line 74, for a path that matched
ExtractRelativePath ==
    /\ ret.stage = "matched"
    /\ ret.matched
    /\ ret' = [ret EXCEPT !.stage = "extracted",
                          !.relativePath = extractRelativePath(call.path, call.config)]
    /\ UNCHANGED <<now, KV_API_KEY, KV_CREDITS, gatewayVars, adminVars, call, extraVars>>

\* lines 77-83: the cleanup of the relative path and the URL of the backend
\* request
BuildTargetUrl ==
    /\ ret.stage = "extracted"
    /\ ret' = [ret EXCEPT !.stage = "built",
                          !.cleanRelativePath = cleanRelativePath(call.path, call.config),
                          !.targetUrl = TargetUrl(call.path, call.search, call.config)]
    /\ UNCHANGED <<now, KV_API_KEY, KV_CREDITS, gatewayVars, adminVars, call, extraVars>>

NextTarget == MatchTargetPattern \/ ExtractRelativePath \/ BuildTargetUrl

SpecTarget == InitTarget /\ [][NextTarget]_vars

\* ------------------------------------------------- the static cost lookup

PathV1Simple == <<"/", "a", "p", "i", "/", "v", "1", "/", "s", "i", "m", "p", "l", "e">>

PathV1Normal == <<"/", "a", "p", "i", "/", "v", "1", "/", "n", "o", "r", "m", "a", "l">>

PathV1Search == <<"/", "a", "p", "i", "/", "v", "1", "/", "s", "e", "a", "r", "c", "h">>

PathV1Complex == <<"/", "a", "p", "i", "/", "v", "1", "/", "c", "o", "m", "p", "l", "e",
    "x">>

PathV1ComplexSlash == <<"/", "a", "p", "i", "/", "v", "1", "/", "c", "o", "m", "p", "l", "e",
    "x", "/">>

PathV1Image == <<"/", "a", "p", "i", "/", "v", "1", "/", "i", "m", "a", "g", "e", "s",
    "/", "a">>

PathV1Large == <<"/", "a", "p", "i", "/", "v", "1", "/", "d", "a", "t", "a", "/", "l",
    "a", "r", "g", "e", "/", "x">>

PathV2 == <<"/", "a", "p", "i", "/", "v", "2", "/">>

PathV2Nested == <<"/", "a", "p", "i", "/", "v", "2", "/", "a", "p", "i", "/", "v", "1",
    "/", "c", "o", "m", "p", "l", "e", "x">>

PathV3 == <<"/", "a", "p", "i", "/", "v", "3">>

\* the paths the lookups are asked about
CostPaths ==
    {PathV1Simple, PathV1Normal, PathV1Search, PathV1Complex, PathV1ComplexSlash, 
     PathV1Image, PathV1Large, PathV2, PathV2Nested, PathV3,
     PathApi, PathComplex, PathBroken, PathOther}

\* costPatterns of getRequestCost: the regular expressions with their costs
RequestCostPatterns ==
    << [pattern |-> <<"^", "/", "a", "p", "i", "/", "v", "1", "/", "s", "i", "m", "p", "l",
                    "e", "$">>,
        cost |-> 1],
       [pattern |-> <<"^", "/", "a", "p", "i", "/", "v", "1", "/", "n", "o", "r", "m", "a",
                    "l", "$">>,
        cost |-> 2],
       [pattern |-> <<"^", "/", "a", "p", "i", "/", "v", "1", "/", "c", "o", "m", "p", "l",
                    "e", "x", "$">>,
        cost |-> 5] >>

\* costPatterns of getEndpointCost
EndpointCostPatterns ==
    << [pattern |-> <<"^", "/", "a", "p", "i", "/", "v", "1", "/", "s", "i", "m", "p", "l",
                    "e", "$">>,
        cost |-> 1],
       [pattern |-> <<"^", "/", "a", "p", "i", "/", "v", "1", "/", "s", "e", "a", "r", "c",
                    "h", "$">>,
        cost |-> 2],
       [pattern |-> <<"^", "/", "a", "p", "i", "/", "v", "1", "/", "c", "o", "m", "p", "l",
                    "e", "x", "$">>,
        cost |-> 5],
       [pattern |-> <<"^", "/", "a", "p", "i", "/", "v", "1", "/", "i", "m", "a", "g", "e",
                    "s", "/", ".", "*", "$">>,
        cost |-> 3],
       [pattern |-> <<"^", "/", "a", "p", "i", "/", "v", "1", "/", "d", "a", "t", "a", "/",
                    "l", "a", "r", "g", "e", "/", ".", "*", "$">>,
        cost |-> 4],
       [pattern |-> <<"^", "/", "a", "p", "i", "/", "v", "2", "/", ".", "*", "$">>,
        cost |-> 2] >>

\* for (const { pattern, cost } of costPatterns) if (pattern.test(path)) return
\* cost, from the entry i on; dflt after the last entry
RECURSIVE CostFrom(_, _, _, _)
CostFrom(costPatterns, i, path, dflt) ==
    IF i > Len(costPatterns) THEN dflt
    ELSE IF RegExpTest(costPatterns[i].pattern, path) THEN costPatterns[i].cost
    ELSE CostFrom(costPatterns, i + 1, path, dflt)

\* return 1 after the loop
DefaultCost == 1

getRequestCost(path) == CostFrom(RequestCostPatterns, 1, path, DefaultCost)

\* a lookup that charges nothing for a path without an entry
getEndpointCost_FreeByDefault(endpoint) == CostFrom(EndpointCostPatterns, 1, endpoint, 0)

getEndpointCost(endpoint) == CostFrom(EndpointCostPatterns, 1, endpoint, DefaultCost)

\* calls of matchTargetPattern with the same arguments
MaxMatchCalls == 2

\* no lookup has returned
NoLookup == [returned |-> {}, requestCost |-> 0, endpointCost |-> 0, matches |-> <<>>]

\* the targets the matcher is asked about: those of the table, a wildcard
\* without a slash before its '*', a trailing slash and an exact path
LookupConfigs ==
    {targets[i] : i \in 1..Len(targets)}
    \cup { Target(<<"/", "a", "p", "i", "*">>, FALSE, BExampleUrl),
           Target(<<"/", "o", "t", "h", "e", "r", "/">>, FALSE, BExampleUrl),
           Target(PathV3, FALSE, BExampleUrl) }

InitLookup ==
    /\ InitGateway
    /\ call \in [path : CostPaths, search : {NoSearch}, config : LookupConfigs]
    /\ ret = NoLookup
    /\ IdleExtra

LookupFrame ==
    UNCHANGED <<now, KV_API_KEY, KV_CREDITS, gatewayVars, adminVars, call, extraVars>>

\* getRequestCost(path)
GetRequestCost ==
    /\ "getRequestCost" \notin ret.returned
    /\ ret' = [ret EXCEPT !.returned = @ \cup {"getRequestCost"},
                          !.requestCost = getRequestCost(call.path)]
    /\ LookupFrame

\* getEndpointCost(endpoint)
GetEndpointCost ==
    /\ "getEndpointCost" \notin ret.returned
    /\ ret' = [ret EXCEPT !.returned = @ \cup {"getEndpointCost"},
                          !.endpointCost = getEndpointCost(call.path)]
    /\ LookupFrame

\* a matcher that keeps one global regular expression between its calls:
\* test starts where the match before it ended
MatchTargetPatternCall_SharedRegExp ==
    /\ Len(ret.matches) < MaxMatchCalls
    /\ ret' = [ret EXCEPT !.matches =
                   Append(@, IF call.config.isRegex /\ @ # <<>> /\ @[Len(@)]
                             THEN FALSE
                             ELSE matchTargetPattern(call.path, call.config))]
    /\ LookupFrame

\* matchTargetPattern(path, config), once more with the same arguments
MatchTargetPatternCall ==
    /\ Len(ret.matches) < MaxMatchCalls
    /\ ret' = [ret EXCEPT !.matches = Append(@, matchTargetPattern(call.path, call.config))]
    /\ LookupFrame

\* between the calls the clock moves on, an admin writes a balance and the
\* validator fills its cache
NextLookup ==
    \/ GetRequestCost
    \/ GetEndpointCost
    \/ MatchTargetPatternCall
    \/ Tick
    \/ \E v \in CreditInputs : AdminPutCredits("c1", v)
    \/ \E k \in RevokedKeys : ValidateApiKeyCall(1, k)
    \/ ValidateApiKeyRead(1)

SpecLookup == InitLookup /\ [][NextLookup]_vars

\* ------------------------------------------ the target service of the store

\* the paths findTargetConfig is asked about: one that both descriptors
\* match, one that the wildcard alone matches, one that neither matches
FindPaths == {PathApi, <<"/", "a", "p", "i", "/", "x">>, PathOther}

InitFind ==
    /\ InitGateway
    /\ call = NoCall
    /\ ret = NoReturn
    /\ IdleServices
    /\ debit = NoDebit
    /\ APIKI_KV \in TargetStores(<<>>)
    /\ clientKeysCache = [c \in Clients |-> NoKeyList]
    /\ clientsListCache = NoClientsList
    /\ mgmt = [a \in Admins |-> NoMgmt]
    /\ mgmtOps = 0
    /\ IdleFind

NextFind ==
    \/ \E service \in {"plain", "cached"}, path \in FindPaths :
           FindTargetConfigCall(service, path)
    \/ FindListRead
    \/ FindDescriptorRead
    \/ \E d \in ClockSteps : Elapse(d)

SpecFind == InitFind /\ [][NextFind]_vars

\* ------------------------------- the gateway with its targets in the store

\* the requests of the handler: without a key, with a key that is inactive,
\* and with the key of c1 for paths of cost 1 and 5 and for a path that no
\* descriptor matches
DynamicRequests ==
    { Inbound("OPTIONS", NoHeader, PathApi),
      Inbound("GET", NoHeader, PathApi),
      Inbound("GET", "key-off", PathApi),
      Inbound("GET", "key-a", PathApi),
      Inbound("GET", "key-a", PathV1Complex),
      Inbound("GET", "key-a", PathOther) }

\* what the handler leaves alone
DynamicFrame ==
    UNCHANGED <<now, KV_API_KEY, KV_CREDITS, gatewayVars, adminVars, targetVars,
                serviceVars, debit, manageVars, targetsListCache, targetCache>>

\* the handler returns a response of this status
DynamicReturns(status) == dynamic' = [dynamic EXCEPT !.pc = "done", !.status = status]

\* fetch up to the call of validateApiKey: a preflight is answered by
\* handleCors, a request without X-API-Key with 401; stored keeps the
\* balances the request found for the comparison with those it leaves
DynamicFetch(rq) ==
    /\ dynamic.pc \in {"idle", "done"}
    /\ inv[1].pc \in {"idle", "returned"}
    /\ LET this == [NoDynamic EXCEPT !.request = rq, !.base = calls, !.stored = KV_CREDITS]
       IN  dynamic' = IF rq.method = "OPTIONS"
                      THEN [this EXCEPT !.pc = "done", !.status = handleCors.status]
                      ELSE IF rq.apiKey = NoHeader
                      THEN [this EXCEPT !.pc = "done", !.status = 401]
                      ELSE [this EXCEPT !.pc = "validateApiKey"]
    /\ UNCHANGED find
    /\ DynamicFrame

\* validateApiKey has returned: 403 without key data, else getClient is called
DynamicValidated ==
    /\ dynamic.pc = "validateApiKey"
    /\ calls = dynamic.base + 1
    /\ inv[1].pc = "returned"
    /\ dynamic' = IF ~inv[1].keyData.exists
                  THEN [dynamic EXCEPT !.pc = "done", !.status = 403]
                  ELSE [dynamic EXCEPT !.pc = "getClient",
                                       !.clientId = inv[1].keyData.clientId]
    /\ UNCHANGED find
    /\ DynamicFrame

\* the store answers getClient: 403 without a client, else the cost of the
\* path is looked up and processCredits is called
DynamicGetClient ==
    /\ dynamic.pc = "getClient"
    /\ dynamic' = IF ~KvHas(APIKI_KV, ClientName(dynamic.clientId))
                  THEN [dynamic EXCEPT !.pc = "done", !.status = 403]
                  ELSE [dynamic EXCEPT !.pc = "processCredits",
                                       !.cost = getEndpointCost(dynamic.request.path)]
    /\ UNCHANGED find
    /\ DynamicFrame

\* processCredits has returned: 429 without success, else findTargetConfig
\* is called
DynamicDebited ==
    /\ dynamic.pc = "processCredits"
    /\ calls = dynamic.base + 2
    /\ inv[1].pc = "returned"
    /\ dynamic' = IF ~inv[1].credit.success
                  THEN [dynamic EXCEPT !.pc = "done", !.status = 429]
                  ELSE [dynamic EXCEPT !.pc = "findTargetConfig"]
    /\ UNCHANGED find
    /\ DynamicFrame

\* findTargetConfig has returned: 404 without a target, else the request to
\* new URL(path, targetConfig.targetUrl) is sent
DynamicResolved ==
    /\ dynamic.pc = "findTargetConfig"
    /\ find.pc = "returned"
    /\ find' = NoFind
    /\ dynamic' = IF ~find.found
                  THEN [dynamic EXCEPT !.pc = "done", !.status = 404]
                  ELSE [dynamic EXCEPT !.pc = "fetch",
                                       !.url = find.config.targetUrl \o dynamic.request.path]
    /\ DynamicFrame

\* the backend answers and its status is passed on, or fetch throws into the
\* catch of the handler, which answers 500
DynamicResponds(status) ==
    /\ dynamic.pc = "fetch"
    /\ DynamicReturns(status)
    /\ UNCHANGED find
    /\ DynamicFrame

\* the store of the handler: with or without the client c1, with or without
\* a list of targets
DynamicStores ==
    {TargetStore(kv, TARGETS_LIST, <<"t2", "t1">>, {"t1", "t2"}) :
        kv \in {<<>>, KvPut(<<>>, ClientName("c1"), ClientData("c1"))}}
    \cup {KvPut(<<>>, ClientName("c1"), ClientData("c1"))}

InitDynamic ==
    /\ now = 1
    /\ KV_API_KEY = InitialApiKeys
    /\ KV_CREDITS = InitialCreditData
    /\ IdleGateway
    /\ call = NoCall
    /\ ret = NoReturn
    /\ IdleServices
    /\ debit = NoDebit
    /\ APIKI_KV \in DynamicStores
    /\ clientKeysCache = [c \in Clients |-> NoKeyList]
    /\ clientsListCache = NoClientsList
    /\ mgmt = [a \in Admins |-> NoMgmt]
    /\ mgmtOps = 0
    /\ IdleFind

\* one handler, the services it awaits and the tracking of usage they start
NextDynamic ==
    \/ \E rq \in DynamicRequests : DynamicFetch(rq)
    \/ /\ dynamic.pc = "validateApiKey"
       /\ calls = dynamic.base
       /\ ValidateApiKeyCall(1, dynamic.request.apiKey)
    \/ ValidateApiKeyRead(1)
    \/ DynamicValidated
    \/ DynamicGetClient
    \/ /\ dynamic.pc = "processCredits"
       /\ calls = dynamic.base + 1
       /\ ProcessCreditsCall(1, dynamic.clientId, dynamic.cost)
    \/ ProcessCreditsRead(1)
    \/ ProcessCreditsWrite(1)
    \/ DynamicDebited
    \/ /\ dynamic.pc = "findTargetConfig"
       /\ find.pc = "idle"
       /\ \E service \in {"plain", "cached"} :
              FindTargetConfigCall(service, dynamic.request.path)
    \/ FindListRead
    \/ FindDescriptorRead
    \/ DynamicResolved
    \/ \E b \in BackendResponses : DynamicResponds(b.status)
    \/ DynamicResponds(500)
    \/ \E i \in 1..MaxCalls : TrackGet(i) \/ TrackPut(i)

SpecDynamic == InitDynamic /\ [][NextDynamic]_vars

\* ----------------------------------------- the services with their caches

InitServices ==
    /\ now = 1
    /\ KV_API_KEY = InitialApiKeys
    /\ KV_CREDITS = InitialCreditData
    /\ IdleGateway
    /\ call = NoCall
    /\ ret = NoReturn
    /\ IdleServices
    /\ debit = NoDebit
    /\ IdleManage
    /\ IdleFind

\* the validator and its cache, with the clock and the admin's writes
NextCache ==
    \/ \E s \in Callers :
           \/ \E k \in ServiceKeys : ValidateApiKeyCall(s, k)
           \/ ValidateApiKeyRead(s)
    \/ CleanupExpired
    \/ \E d \in ClockSteps : Elapse(d)
    \/ \E k \in RevokedKeys : StoreKeyDeactivated(k) \/ StoreKeyDeleted(k)

SpecCache == InitServices /\ [][NextCache]_vars

\* the two services and the tracking of usage they start
NextUsage ==
    \/ \E s \in Callers :
           \/ \E k \in ServiceKeys : ValidateApiKeyCall(s, k)
           \/ ValidateApiKeyRead(s)
           \/ \E d \in CreditCalls : ProcessCreditsCall(s, d[1], d[2])
           \/ ProcessCreditsRead(s)
           \/ ProcessCreditsWrite(s)
    \/ \E i \in 1..MaxCalls :
           \/ TrackGet(i)
           \/ TrackGetFails(i)
           \/ TrackPut(i)
           \/ TrackPutFails(i)

SpecUsage == InitServices /\ [][NextUsage]_vars

\* ------------------------------------- the two processCredits side by side

InitCredits ==
    /\ InitGateway
    /\ call = NoCall
    /\ ret = NoReturn
    /\ IdleServices
    /\ debit \in DebitInputs
    /\ IdleManage
    /\ IdleFind

NextCredits == ProcessCreditsBare \/ ProcessCreditsStructured

SpecCredits == InitCredits /\ [][NextCredits]_vars

\* ------------------------------------------- the admin's keys and clients

\* the clients the admin has created, with their list
InitialClients ==
    KvPut(KvPut(KvPut(<<>>, ClientName("c1"), ClientData("c1")),
                ClientName("c2"), ClientData("c2")),
          CLIENT_LIST_KEY, <<"c1", "c2">>)

\* key-a, as createApiKey has made it for client c1
CreatedApiKeys ==
    [k \in ApiKeys |-> IF k = "key-a" THEN ApiKeyConfig("c1", "", TRUE, NullTime)
                       ELSE NoConfig]

InitManage ==
    /\ now = 1
    /\ KV_CREDITS = InitialCredits
    /\ IdleGateway
    /\ call = NoCall
    /\ ret = NoReturn
    /\ IdleServices
    /\ debit = NoDebit
    /\ clientKeysCache = [c \in Clients |-> NoKeyList]
    /\ clientsListCache = NoClientsList
    /\ mgmt = [a \in Admins |-> NoMgmt]
    /\ mgmtOps = 0
    /\ IdleFind

InitIndex ==
    /\ InitManage
    /\ KV_API_KEY = CreatedApiKeys
    /\ APIKI_KV = KvPut(InitialClients, ClientKeysName("c1"), <<"key-a">>)

\* the key service and deleteClient
NextIndex ==
    \/ \E a \in Admins :
           \/ \E c \in Clients, k \in FreshKeys : CreateApiKeyCall(a, c, k)
           \/ CreateApiKeyPut(a)
           \/ \E k \in DeletedKeys : DeleteApiKeyCall(a, k)
           \/ DeleteApiKeyRead(a)
           \/ DeleteApiKeyDelete(a)
           \/ ClientKeysRead(a)
           \/ ClientKeysWrite(a)
           \/ \E c \in HandledClients : DeleteClientCall(a, c)
           \/ DeleteClientRead(a)
           \/ DeleteClientDelete(a)
           \/ DeleteClientListRead(a)
           \/ DeleteClientListWrite(a)
           \/ DeleteClientKeysRead(a)
    \/ \E c \in Clients : ClientKeysTimeout(c)
    \/ ClientsListExpires

SpecIndex == InitIndex /\ [][NextIndex]_vars

InitRecords ==
    /\ InitManage
    /\ KV_API_KEY = InitialApiKeys
    /\ APIKI_KV = InitialClients

\* the handlers of single records
NextRecords ==
    \E a \in Admins :
        \/ \E k \in HandledKeys : GetApiKeyRequest(a, k)
        \/ \E c \in HandledClients : GetClientRequest(a, c)
        \/ \E k \in HandledKeys, u \in UpdateBodies : PutApiKeyRequest(a, k, u)
        \/ PutApiKeyRead(a)
        \/ PutApiKeyWrite(a)

SpecRecords == InitRecords /\ [][NextRecords]_vars

\* ----------------------------------------------- the creation of clients

\* no client has been created
InitClients ==
    /\ InitManage
    /\ KV_API_KEY = InitialApiKeys
    /\ APIKI_KV = <<>>

NextClients ==
    \E a \in Admins :
        \/ \E d \in ClientInputs : PostClientRequest(a, d)
        \/ PostClientCheck(a)
        \/ PostClientPut(a)
        \/ PostEmailPut(a)
        \/ PostCreditsPut(a)

SpecClients == InitClients /\ [][NextClients]_vars

\* ------------------------------------------------------------------ claims

\* the number a stored balance stands for
StoredBalance(c) == ClientBalance(KV_CREDITS[c])

\* the slots whose processCredits call for client c has not returned
Debiting(c) ==
    {r \in Slots : pc[r] \in {"processCredits", "putString"} /\ apiKeyConfig[r].clientId = c}

\* C1: once all the processCredits calls on a client have completed (no
\* admin request having been made), the stored balance is the initial
\* balance minus the sum of the costs of the calls that returned success.
C1_BalanceIsInitialMinusSpent ==
    \A c \in Clients :
        (adminOps = 0 /\ Debiting(c) = {})
            => StoredBalance(c) = ClientBalance(InitialCredits[c]) - spent[c]

\* C2: no two processCredits calls for the same client are both between their
\* balance read and their balance write.
C2_DebitsSerialized ==
    \A r1, r2 \in Slots :
        (r1 # r2 /\ pc[r1] = "putString" /\ pc[r2] = "putString")
            => apiKeyConfig[r1].clientId # apiKeyConfig[r2].clientId

\* C3: under any interleaving of gateway debits and admin credit writes the
\* stored balance of every client is >= 0.
C3_BalanceNonNegative ==
    \A c \in Clients : KV_CREDITS[c] # NULL => parseInt(KV_CREDITS[c]) >= 0

\* C3 witness: the admin has set the balance of c2 to 7 and a debit of 5 has
\* been written on top of it.
C3_Witness ==
    /\ adminOps > 0
    /\ adminResponse = 200
    /\ KV_CREDITS["c2"] = toString(2)
    /\ spent["c2"] = 5

\* C4: one invocation of the fetch handler calls processCredits at most once
\* and writes credits:<clientId> at most once, whatever the outcome.
C4_AtMostOneDebit ==
    \A r \in Slots : effects[r].debits <= 1 /\ effects[r].puts <= 1

\* C4 witness: a request that ended in 500 after the backend failed, with its
\* one debit written.
C4_Witness ==
    \E r \in Slots :
        /\ pc[r] = "done"
        /\ response[r].status = 500
        /\ effects[r].debits = 1
        /\ effects[r].puts = 1

\* C5: when the stored balance b (0 without a record) is less than the cost,
\* processCredits returns {success: false, remaining: b, used: 0} and the
\* store is left as it was.
C5_FailedDebitWritesNothing ==
    [][\A r \in Slots :
          (/\ pc[r] = "processCredits"
           /\ pc'[r] # "processCredits"
           /\ StoredBalance(apiKeyConfig[r].clientId) < TargetOf(r).costInfo.cost)
          => /\ creditResult'[r] =
                    [success |-> FALSE,
                     remaining |-> StoredBalance(apiKeyConfig[r].clientId),
                     used |-> 0]
             /\ KV_CREDITS' = KV_CREDITS
             /\ pc'[r] = "done"
             /\ effects'[r].puts = 0]_vars

\* C5 witness: a client without a credits record has been refused with
\* remaining 0 and still has no record.
C5_Witness ==
    \E r \in Slots :
        /\ pc[r] = "done"
        /\ apiKeyConfig[r].clientId = "c2"
        /\ creditResult[r] = [success |-> FALSE, remaining |-> 0, used |-> 0]
        /\ response[r].status = 402
        /\ KV_CREDITS["c2"] = NULL

\* C6: in a sequential execution processCredits with balance b >= c writes
\* b - c and returns {success: true, remaining: b - c, used: c}, and with
\* b < c returns {success: false, remaining: b, used: 0}; b being the initial
\* balance minus what the earlier calls used.
C6_SequentialDebit ==
    \A r \in Slots :
        (effects[r].debits = 1 /\ pc[r] \in {"fetch", "done"}) =>
            LET c      == apiKeyConfig[r].clientId
                cost   == TargetOf(r).costInfo.cost
                result == creditResult[r]
                before == ClientBalance(InitialCredits[c]) - spent[c]
                            + (IF result.success THEN cost ELSE 0)
            IN  IF result.success
                THEN /\ before >= cost
                     /\ result.used = cost
                     /\ result.remaining = before - cost
                     /\ KV_CREDITS[c] = toString(before - cost)
                ELSE /\ before < cost
                     /\ result.used = 0
                     /\ result.remaining = before
                     /\ StoredBalance(c) = before
                     /\ response[r].status = 402

\* C6 witness: balance 10 and cost 5: after two debits (remaining 5, then 0)
\* the third request is refused with remaining 0.
C6_Witness ==
    \E r \in Slots :
        /\ started = 3
        /\ spent["c1"] = 10
        /\ KV_CREDITS["c1"] = toString(0)
        /\ pc[r] = "done"
        /\ request[r].apiKey = "key-b"
        /\ response[r].status = 402
        /\ response[r].headers["X-Credits-Remaining"] = toString(0)

\* the record read for the key is one the handler looks at the expiry of
HasRecord(r) ==
    apiKeyConfig[r].exists /\ apiKeyConfig[r].clientId # "" /\ apiKeyConfig[r].targetId # ""

\* C7 as claimed: a key record is accepted iff it is active and its expiresAt
\* is unset/null (an expiresAt of 0 being read as unset) or later than now: a
\* key whose expiresAt equals the current time is rejected.
C7_AcceptedIffLaterThanNow ==
    [][\A r \in Slots :
          (pc[r] = "validate" /\ pc'[r] # "validate" /\ HasRecord(r))
          => ((response'[r].status # 403) <=>
                 (/\ apiKeyConfig[r].active
                  /\ \/ apiKeyConfig[r].expiresAt \in {NullTime, 0}
                     \/ apiKeyConfig[r].expiresAt > now))]_vars

\* C7 amended: a key record is accepted iff it is active and its expiresAt is
\* unset, null or 0, or not earlier than now.
C7_AcceptedIffNotEarlierThanNow ==
    [][\A r \in Slots :
          (pc[r] = "validate" /\ pc'[r] # "validate" /\ HasRecord(r))
          => ((response'[r].status # 403) <=>
                 (/\ apiKeyConfig[r].active
                  /\ \/ apiKeyConfig[r].expiresAt \in {NullTime, 0}
                     \/ apiKeyConfig[r].expiresAt >= now))]_vars

\* C7 witness: key-b, whose expiresAt is the time at the start, has passed the
\* checks (at that time) and a later request with it has been rejected.
C7_Witness ==
    \E r1, r2 \in Slots :
        /\ request[r1].apiKey = "key-b"
        /\ pc[r1] \in {"processCredits", "putString", "fetch"}
        /\ request[r2].apiKey = "key-b"
        /\ response[r2].status = 403

\* C8: a request that ends with 401, 403 or 404 has called no processCredits,
\* written nothing to the store and sent nothing to the backend.
C8_RejectionHasNoEffect ==
    \A r \in Slots :
        (~response[r].proxied /\ response[r].status \in {401, 403, 404})
            => effects[r] = NoEffects

\* C8 witness: a request with the expired key-b has been answered 403 without
\* any effect, the balance of its client being untouched.
C8_Witness ==
    \E r \in Slots :
        /\ request[r].apiKey = "key-b"
        /\ response[r].status = 403
        /\ effects[r] = NoEffects
        /\ KV_CREDITS["c1"] = InitialCredits["c1"]

\* the record read has all the handler asks of it but for the expiry
KeyOk(r) == HasRecord(r) /\ apiKeyConfig[r].active

\* the target of the key exists and its pattern matches the path
Routed(r) ==
    /\ TargetOf(r) # NoTarget
    /\ matchTargetPattern(request[r].path, TargetOf(r))

\* C9: the status is that of the first stage that fails, in the order
\* key header (401), key record (403), target and path (404), debit (402).
C9_StagePrecedence ==
    \A r \in Slots :
        (pc[r] = "done" /\ request[r].method # "OPTIONS") =>
            LET status == response[r].status
                own    == ~response[r].proxied
            IN  /\ request[r].apiKey = NoHeader => status = 401 /\ own
                /\ (request[r].apiKey # NoHeader /\ ~KeyOk(r)) => status = 403 /\ own
                /\ (request[r].apiKey # NoHeader /\ KeyOk(r) /\ ~Routed(r))
                       => status \in {403, 404} /\ own
                /\ (request[r].apiKey # NoHeader /\ KeyOk(r) /\ ~Routed(r)
                       /\ apiKeyConfig[r].expiresAt \in {NullTime, 0})
                       => status = 404
                /\ (own /\ status = 401) => request[r].apiKey = NoHeader
                /\ (own /\ status = 404) => KeyOk(r) /\ ~Routed(r)
                /\ (own /\ status = 402)
                       => /\ KeyOk(r) /\ Routed(r)
                          /\ effects[r] = [debits |-> 1, puts |-> 0, fetches |-> 0]
                /\ (~own \/ status = 500)
                       => /\ KeyOk(r) /\ Routed(r) /\ creditResult[r].success
                          /\ effects[r] = [debits |-> 1, puts |-> 1, fetches |-> 1]

\* C9 witness: with an empty balance, a request with an inactive key has got
\* 403 and a request with a valid key and a path that does not match has got
\* 404.
C9_Witness ==
    \E r1, r2 \in Slots :
        /\ StoredBalance("c2") = 0
        /\ request[r1] = Inbound("GET", "key-off", PathComplex)
        /\ response[r1].status = 403
        /\ request[r2] = Inbound("GET", "key-c", PathOther)
        /\ response[r2].status = 404

HasRequestId(r) ==
    /\ "X-Request-ID" \in DOMAIN response[r].headers
    /\ response[r].headers["X-Request-ID"] = requestId[r]

FetchFailed(r) == pc[r] = "done" /\ effects[r].fetches = 1 /\ ~response[r].proxied

\* C11: when the backend fetch fails after a successful debit, the step that
\* returns the error response writes nothing to the store, the request's one
\* write remains its debit, and, this debit being the only one made on the
\* client, the stored balance is the balance before the request minus the cost.
C11_FailedForwardKeepsDebit ==
    [][\A r \in Slots :
          (pc[r] = "fetch" /\ pc'[r] = "done" /\ ~response'[r].proxied) =>
              LET c    == apiKeyConfig[r].clientId
                  cost == TargetOf(r).costInfo.cost
              IN  /\ KV_CREDITS' = KV_CREDITS
                  /\ effects'[r].puts = 1
                  /\ creditResult'[r] = [success |-> TRUE, remaining |-> newBalance[r],
                                         used |-> cost]
                  /\ spent[c] = cost =>
                         KV_CREDITS'[c] = toString(ClientBalance(InitialCredits[c]) - cost)]_vars

\* C11 witness: with balance 10 and cost 2 the backend fetch has failed and
\* the stored balance is 8.
C11_Witness ==
    \E r \in Slots :
        /\ FetchFailed(r)
        /\ request[r].apiKey = "key-a"
        /\ effects[r].puts = 1
        /\ spent["c1"] = 2
        /\ KV_CREDITS["c1"] = toString(8)

\* C12: a backend fetch failure after a successful debit yields a 502
\* response that carries X-Request-ID and the X-Credits-Remaining and
\* X-Credits-Used headers computed by the debit.
C12_FailedForwardIs502 ==
    \A r \in Slots :
        FetchFailed(r) =>
            /\ response[r].status = 502
            /\ HasRequestId(r)
            /\ response[r].headers["X-Credits-Remaining"] = toString(creditResult[r].remaining)
            /\ response[r].headers["X-Credits-Used"] = toString(creditResult[r].used)

\* C13: every request whose backend fetch has been sent eventually gets its
\* response: no request stays in the fetch forever.
C13_ForwardEventuallyResponds ==
    \A r \in Slots : (pc[r] = "fetch") ~> (pc[r] = "done")

\* C14: when the debit fails for insufficient balance the gateway responds 402
\* with X-Credits-Remaining equal to the balance read by the debit,
\* X-Credits-Required equal to the cost of the target and X-Request-ID, and
\* sends no backend request.
C14_InsufficientCreditsResponse ==
    [][\A r \in Slots :
          (/\ pc[r] = "processCredits"
           /\ pc'[r] # "processCredits"
           /\ StoredBalance(apiKeyConfig[r].clientId) < TargetOf(r).costInfo.cost)
          => /\ pc'[r] = "done"
             /\ response'[r].status = 402
             /\ ~response'[r].proxied
             /\ response'[r].headers["X-Credits-Remaining"] =
                    toString(StoredBalance(apiKeyConfig[r].clientId))
             /\ response'[r].headers["X-Credits-Required"] =
                    toString(TargetOf(r).costInfo.cost)
             /\ response'[r].headers["X-Request-ID"] = requestId[r]
             /\ effects'[r].fetches = 0
             /\ fetchRequest'[r] = NoFetchRequest]_vars

\* C14 witness: after debits of 2 and 5 on a balance of 10, a request of cost
\* 5 has been answered 402 with 3 remaining and 5 required.
C14_Witness ==
    \E r \in Slots :
        /\ pc[r] = "done"
        /\ response[r].status = 402
        /\ response[r].headers["X-Credits-Remaining"] = toString(3)
        /\ response[r].headers["X-Credits-Required"] = toString(5)
        /\ effects[r].fetches = 0
        /\ KV_CREDITS["c1"] = toString(3)

\* C15: the request sent to the backend has an X-API-Key header only if the
\* forwardApiKey policy of the resolved target is true.
C15_ApiKeyForwardedOnlyByPolicy ==
    \A r \in Slots :
        (effects[r].fetches = 1 /\ "X-API-Key" \in DOMAIN fetchRequest[r].headers)
            => forwardApiKey(TargetOf(r))

\* C16: a proxied response carries X-Request-ID, X-Credits-Used equal to the
\* cost of the target bound to the key and X-Credits-Remaining equal to the
\* balance written by the debit of this request, whatever headers the
\* backend has set.
C16_ProxiedResponseHeaders ==
    \A r \in Slots :
        response[r].proxied =>
            /\ HasRequestId(r)
            /\ response[r].headers["X-Credits-Used"] =
                   toString(getTargetConfig(KV_API_KEY[request[r].apiKey].targetId).costInfo.cost)
            /\ response[r].headers["X-Credits-Remaining"] = toString(newBalance[r])
            /\ effects[r].puts = 1

\* C16 witness: with balance 10 and cost 2, the response of a backend that
\* answers 503 with an X-Credits-Remaining of its own has been returned with
\* 8 remaining and 2 used.
C16_Witness ==
    \E r \in Slots :
        /\ response[r].proxied
        /\ response[r].status = 503
        /\ HasRequestId(r)
        /\ response[r].headers["X-Credits-Used"] = toString(2)
        /\ response[r].headers["X-Credits-Remaining"] = toString(8)

\* a is a prefix of b, character by character
IsPrefix(a, b) == Len(a) <= Len(b) /\ \A i \in 1..Len(a) : a[i] = b[i]

\* C17: for a pattern that is not a regular expression matchTargetPattern
\* returns what the reference says: a pattern ending in '*' matches the path
\* equal to the prefix before the '*', the path equal to that prefix without
\* its trailing slash and the paths that start with the prefix; a pattern
\* ending in '/' matches the paths equal to it with or without that slash;
\* any other pattern matches the path equal to it. For '/api/*': '/api',
\* '/api/' and '/api/x' match, '/apix' does not.
C17_MatchEqualsReference ==
    (ret.stage # "called" /\ ~call.config.isRegex) =>
        LET p == call.config.pattern
            n == Len(p)
            reference ==
                IF n > 0 /\ p[n] = "*"
                THEN \/ call.path = SubSeq(p, 1, n - 1)
                     \/ n > 1 /\ p[n - 1] = "/" /\ call.path = SubSeq(p, 1, n - 2)
                     \/ IsPrefix(SubSeq(p, 1, n - 1), call.path)
                ELSE IF n > 0 /\ p[n] = "/"
                THEN call.path = p \/ call.path = SubSeq(p, 1, n - 1)
                ELSE call.path = p
        IN  /\ ret.matched <=> reference
            /\ (p = PatternApiStar /\ call.path \in {<<"/", "a", "p", "i">>, <<"/", "a", "p", "i", "/">>, <<"/", "a", "p", "i", "/", "x">>})
                   => ret.matched
            /\ (p = PatternApiStar /\ call.path = <<"/", "a", "p", "i", "x">>) => ~ret.matched

\* C17 witness: '/api' has been matched against '/api/*'.
C17_Witness ==
    /\ ret.stage # "called"
    /\ call.config.pattern = PatternApiStar
    /\ call.path = <<"/", "a", "p", "i">>
    /\ ret.matched

\* C18: a request whose key is bound to a target marked isRegex whose pattern
\* does not compile is not matched: it ends in a 404 of the handler (a 403
\* when the key has expired), never in 500, and makes no debit, no write and
\* no backend request.
C18_InvalidRegexIs404 ==
    \A r \in Slots :
        (/\ pc[r] \notin {"idle", "getApiKeyConfig", "validate"}
         /\ TargetOf(r) # NoTarget
         /\ TargetOf(r).isRegex
         /\ ~RegExpCompiles(TargetOf(r).pattern))
        => /\ ~matchTargetPattern(request[r].path, TargetOf(r))
           /\ pc[r] = "done"
           /\ ~response[r].proxied
           /\ response[r].status \in {403, 404}
           /\ (KeyOk(r) /\ apiKeyConfig[r].expiresAt = NullTime) => response[r].status = 404
           /\ effects[r] = NoEffects

\* C18 witness: the request with key-bad, whose target has the pattern
\* '*/broken/*', has been answered 404 and the balance of its client is
\* untouched.
C18_Witness ==
    \E r \in Slots :
        /\ pc[r] = "done"
        /\ request[r].apiKey = "key-bad"
        /\ TargetOf(r).pattern = BrokenPattern
        /\ response[r].status = 404
        /\ effects[r] = NoEffects
        /\ KV_CREDITS["c1"] = InitialCredits["c1"]

\* C19: for every path that matches its target, the relative path the
\* backend URL is built from is not empty, starts with '/' and does not end
\* with '/' unless it is '/'.
C19_RelativePathIsClean ==
    ret.stage = "built" =>
        LET clean == ret.cleanRelativePath
        IN  /\ clean # <<>>
            /\ clean[1] = "/"
            /\ clean[Len(clean)] = "/" => clean = <<"/">>

\* the case of C20: a wildcard pattern B + '/*' and a path B + '/' + s with s
\* not empty and without a trailing slash
WildcardSuffixCase ==
    /\ ret.stage = "built"
    /\ ~call.config.isRegex
    /\ EndsWith(call.config.pattern, <<"/", "*">>)
    /\ IsPrefix(DropLast(call.config.pattern), call.path)
    /\ Len(call.path) >= Len(call.config.pattern)
    /\ call.path[Len(call.path)] # "/"

\* the URL C20 gives: the targetUrl without its trailing slash, '/' + s and
\* the query of the inbound URL
WildcardSuffixUrl ==
    LET url == call.config.targetUrl
        s   == SubSeq(call.path, Len(call.config.pattern), Len(call.path))
    IN  (IF url[Len(url)] = "/" THEN SubSeq(url, 1, Len(url) - 1) ELSE url)
            \o <<"/">> \o s \o call.search

\* C20 as claimed: for a wildcard pattern B + '/*' and a path B + '/' + s (s
\* not empty, without trailing slash) the backend URL is the targetUrl without
\* trailing slash followed by '/' + s and the inbound query.
C20_WildcardUrlIsBasePlusSuffix ==
    WildcardSuffixCase => ret.targetUrl = WildcardSuffixUrl

\* C20 amended: the same for an s that does not start with '/'; pattern
\* '/t/*', targetUrl 'https://b.example', path '/t/foo/bar' gives
\* 'https://b.example/foo/bar'.
C20_WildcardUrlIsBasePlusPlainSuffix ==
    /\ (WildcardSuffixCase /\ call.path[Len(call.config.pattern)] # "/")
           => ret.targetUrl = WildcardSuffixUrl
    /\ (/\ ret.stage = "built"
        /\ call.config.pattern = PatternTStar
        /\ call.config.targetUrl = BExampleUrl
        /\ call.path = PathTFooBar)
           => ret.targetUrl = BExampleUrl \o PathFooBar \o call.search

\* C20 witness: the URL of the example has been built, with the query of the
\* inbound URL.
C20_Witness ==
    /\ ret.stage = "built"
    /\ call.config.pattern = PatternTStar
    /\ call.path = PathTFooBar
    /\ call.search = <<"?", "q">>
    /\ ret.targetUrl = BExampleUrl \o PathFooBar \o <<"?", "q">>

\* ------------------------------------------------- the caching validator

\* the call of validateApiKey for the key by the caller happens in this step
ValidateCalled(s, apiKey) ==
    /\ calls' = calls + 1
    /\ inv'[s].call = calls + 1
    /\ inv'[s].op = "validateApiKey"
    /\ inv'[s].apiKey = apiKey

\* the time at which the cache entry was written
WrittenAt(entry) == entry.expires - ApiKeyCacheTtl

\* C21: a call of validateApiKey made more than the time to live (5 minutes)
\* after the cache entry of the key was written does not use the entry: it
\* asks the store, and the answer of the store for a key that is deactivated
\* or deleted there is null, with nothing cached; a call that finds the entry
\* leaves its expiry as it was.
C21_RevokedKeyOutlivesNoEntry ==
    [][\A s \in Callers, k \in ServiceKeys :
          /\ ValidateCalled(s, k) /\ apiKeyCache[k].has
                 => /\ now > WrittenAt(apiKeyCache[k]) + ApiKeyCacheTtl
                           => inv'[s].pc = "KV_API_KEY.get" /\ ~apiKeyCache'[k].has
                    /\ apiKeyCache'[k].has => apiKeyCache'[k] = apiKeyCache[k]
          /\ ( /\ inv[s].pc = "KV_API_KEY.get"
               /\ inv[s].apiKey = k
               /\ inv'[s].pc = "returned"
               /\ ~(KV_API_KEY[k].exists /\ KV_API_KEY[k].active) )
                 => inv'[s].keyData = NoConfig /\ apiKeyCache' = apiKeyCache]_vars

\* C21: key-gone was accepted from the store, then revoked by the admin, and
\* a later call, the entry of the cache having expired, has asked the store
\* and got null.
C21_Witness ==
    \E s, q \in Callers :
        /\ inv[q].pc = "returned" /\ inv[q].apiKey = "key-gone" /\ inv[q].keyData.exists
        /\ inv[s].pc = "returned" /\ inv[s].apiKey = "key-gone"
        /\ inv[s].call > inv[q].call
        /\ ~inv[s].fromCache
        /\ inv[s].keyData = NoConfig
        /\ ~KV_API_KEY["key-gone"].active
        /\ ~apiKeyCache["key-gone"].has

\* C22: a call of validateApiKey that finds the key in the cache, the entry
\* within its time to live, returns null when the expiresAt of the cached
\* record has passed, and the entry is then removed; it returns null when
\* the cached record is not active.
C22_CachedRecordRechecked ==
    [][\A s \in Callers, k \in ServiceKeys :
          ( /\ ValidateCalled(s, k)
            /\ apiKeyCache[k].has
            /\ ~(apiKeyCache[k].expires < now) )
              => /\ ( /\ apiKeyCache[k].value.expiresAt # NullTime
                      /\ apiKeyCache[k].value.expiresAt < now )
                        => /\ inv'[s].pc = "returned"
                           /\ inv'[s].keyData = NoConfig
                           /\ ~apiKeyCache'[k].has
                 /\ ~apiKeyCache[k].value.active
                        => inv'[s].pc = "returned" /\ inv'[s].keyData = NoConfig]_vars

\* C22: key-a, cached when it was valid, has been refused from the cache
\* after its expiresAt and before the end of the entry's time to live, and
\* the entry is gone.
C22_Witness ==
    \E s \in Callers :
        /\ inv[s].pc = "returned" /\ inv[s].apiKey = "key-a"
        /\ inv[s].fromCache
        /\ inv[s].keyData = NoConfig
        /\ now > KV_API_KEY["key-a"].expiresAt
        /\ now < 1 + ApiKeyCacheTtl
        /\ ~apiKeyCache["key-a"].has

\* --------------------------------------------------- the tracking of usage

\* the tracker of the call moves in this step
Tracks(i) == tracker[i].pc \in {"get", "put"} /\ tracker'[i] # tracker[i]

\* C23: a step of the tracking of usage, failed or not, changes neither what
\* validateApiKey or processCredits has returned, nor the key records, the
\* balances or the cache; and the tracking starts in the step in which the
\* function returns to its caller, which waits for no step of it.
C23_TrackingNeverChangesOutcome ==
    [][\A i \in 1..MaxCalls :
          /\ Tracks(i) => /\ inv' = inv
                          /\ KV_API_KEY' = KV_API_KEY
                          /\ KV_CREDITS' = KV_CREDITS
                          /\ apiKeyCache' = apiKeyCache
          /\ tracker[i].pc = "none" /\ tracker'[i].pc # "none"
                 => \E s \in Callers : /\ inv'[s].call = i
                                        /\ inv'[s] # inv[s]
                                        /\ inv'[s].pc = "returned"]_vars

\* C23: the tracking has failed for a key that validateApiKey has accepted
\* and for a debit that processCredits has made.
C23_Witness ==
    \E s, q \in Callers :
        /\ inv[s].pc = "returned" /\ inv[s].op = "validateApiKey"
        /\ inv[s].keyData.exists
        /\ tracker[inv[s].call].pc = "failed"
        /\ inv[q].pc = "returned" /\ inv[q].op = "processCredits"
        /\ inv[q].credit.success
        /\ tracker[inv[q].call].pc = "failed"

\* ------------------------------------- the two representations of a balance

\* result.used: undefined when the result has no such property
UsedOf(result) == IF "used" \in DOMAIN result THEN result.used ELSE JsUndefined

\* C24: for one balance and one cost, processCredits on the bare numeric
\* string and processCredits on the {balance, lastUpdated} record return the
\* same success flag, the same remaining and the same used, and leave
\* records that stand for the same balance.
C24_SameDebitContract ==
    (debit.bareRan /\ debit.structuredRan)
        => /\ debit.bareResult.success = debit.structuredResult.success
           /\ debit.bareResult.remaining = debit.structuredResult.remaining
           /\ UsedOf(debit.bareResult) = UsedOf(debit.structuredResult)
           /\ BareBalance(debit.bare) = StructuredBalance(debit.structured)

\* ------------------------------------------- the key records and the gateway

\* C29: no step of the gateway's handling of a request, whatever its
\* outcome, writes or deletes a key record: the records are the same after
\* the step as before it.
C29_GatewayNeverWritesKeyRecords == [][KV_API_KEY' = KV_API_KEY]_vars

\* C29: one request has been refused for its key and another has been debited
\* and proxied, and the key records are those the admin stored.
C29_Witness ==
    \E r1, r2 \in Slots :
        /\ pc[r1] = "done" /\ response[r1].status = 403
        /\ request[r1].apiKey = "key-off"
        /\ pc[r2] = "done" /\ response[r2].proxied
        /\ KV_CREDITS # InitialCredits
        /\ KV_API_KEY = InitialApiKeys

\* the keys whose record names client c
KeysOf(kv, c) == {k \in ApiKeys : kv[k].exists /\ kv[k].clientId = c}

\* the keys that client:keys:<c> lists
Indexed(kv, c) == {KvList(kv, ClientKeysName(c))[i] :
                      i \in 1..Len(KvList(kv, ClientKeysName(c)))}

\* admin request a returns from op in this step
ManageReturns(a, op) ==
    /\ mgmt'[a] # mgmt[a]
    /\ mgmt'[a].op = op
    /\ mgmt'[a].pc = "returned"

\* C25: when deleteClient(clientId) returns true, no key record names that
\* client any more: the keys that createApiKey made for it and listed in its
\* index are deleted with it.
C25_DeleteClientCascades ==
    [][\A a \in Admins :
          ManageReturns(a, "deleteClient") /\ mgmt'[a].result
              => KeysOf(KV_API_KEY', mgmt'[a].clientId) = {}]_vars

\* C28: whenever no createApiKey and no deleteApiKey is under way, the list
\* client:keys:<clientId> of every client holds exactly the keys whose
\* record exists and names that client; a deleted key is in no list.
C28_IndexMatchesRecords ==
    (\A a \in Admins : mgmt[a].pc \in {"idle", "returned"})
        => \A c \in Clients : Indexed(APIKI_KV, c) = KeysOf(KV_API_KEY, c)

\* C27: a PUT /admin/api-keys/:id leaves the clientId and the targetId of
\* every stored key record as they were, whatever its body holds.
C27_UpdateKeepsClientAndTarget ==
    [][\A a \in Admins :
          ManageReturns(a, "PUT api-key")
              => \A k \in ApiKeys :
                     /\ KV_API_KEY'[k].clientId = KV_API_KEY[k].clientId
                     /\ KV_API_KEY'[k].targetId = KV_API_KEY[k].targetId]_vars

\* C30: a GET /admin/api-keys/:id for a key without a record and a GET
\* /admin/clients/:id for a client without a record are answered with 404,
\* and the key records, the admin's records and the balances are as before.
C30_UnknownGetIs404 ==
    [][\A a \in Admins :
          \/ /\ ManageReturns(a, "GET api-key")
             /\ ~KV_API_KEY[mgmt'[a].apiKey].exists
          \/ /\ ManageReturns(a, "GET client")
             /\ ~KvHas(APIKI_KV, ClientName(mgmt'[a].clientId))
          => /\ mgmt'[a].status = 404
             /\ KV_API_KEY' = KV_API_KEY
             /\ APIKI_KV' = APIKI_KV
             /\ KV_CREDITS' = KV_CREDITS]_vars

\* C30 witness: a GET for the key without a record and a GET for the client
\* without a record have both been answered with 404.
C30_Witness ==
    \E a, b \in Admins :
        /\ mgmt[a].op = "GET api-key" /\ mgmt[a].pc = "returned"
        /\ ~KV_API_KEY[mgmt[a].apiKey].exists /\ mgmt[a].status = 404
        /\ mgmt[b].op = "GET client" /\ mgmt[b].pc = "returned"
        /\ ~KvHas(APIKI_KV, ClientName(mgmt[b].clientId)) /\ mgmt[b].status = 404

\* C26: no two client records of the store hold the same email in lower
\* case, also after two POST /admin/clients with one email that overlap.
C26_EmailsUnique ==
    \A m, n \in ClientNames(APIKI_KV) :
        m # n => APIKI_KV[m].email # APIKI_KV[n].email

\* C39: a POST /admin/credits goes on to its write only for a client that
\* has no credits record and only with a credits value between 0 and
\* 1,000,000; for a client with a record, whatever its value, it answers 400
\* and the stored balance stays.
C39_PostNeverOverwrites ==
    [][(adminPc = "idle" /\ adminPc' = "post")
          => /\ KV_CREDITS[adminRequest'.clientId] = NULL
             /\ adminRequest'.credits >= 0
             /\ adminRequest'.credits <= 1000000]_vars

\* C38: with one gateway request and the admin at work, the debit's write
\* leaves the balance that was stored just before it, or that balance less
\* the cost: a balance the admin wrote after the debit's read is not replaced
\* by the balance the debit read less the cost.
C38_AdminWriteSurvivesDebit ==
    [][\A r \in Slots :
          (started = 1 /\ pc[r] = "putString" /\ pc'[r] # "putString")
          => LET clientId == apiKeyConfig[r].clientId
                 stored   == ClientBalance(KV_CREDITS[clientId])
             IN  ClientBalance(KV_CREDITS'[clientId]) \in
                     {stored, stored - TargetOf(r).costInfo.cost}]_vars

\* the target bound to the key the request carries, by the stored record
BoundTarget(r) == getTargetConfig(KV_API_KEY[request[r].apiKey].targetId)

\* C35: the handler comes to the debit only from the checks, with a key whose
\* stored record is active and not expired at that time (no expiry, or one not
\* earlier than now), a bound target that exists and a path that matches its
\* pattern; it comes to send a backend request only from the write of this
\* request's debit, which succeeds in that step, and the request goes to the
\* targetUrl of the bound target and to that of no other target.
C35_BackendRequestOnlyWhenEntitled ==
    [][\A r \in Slots :
          LET record == KV_API_KEY[request[r].apiKey]
          IN  /\ (pc'[r] = "processCredits" /\ pc[r] # "processCredits")
                    => /\ pc[r] = "validate"
                       /\ request[r].apiKey # NoHeader
                       /\ record.exists /\ record.active
                       /\ record.expiresAt \in {NullTime, 0} \/ record.expiresAt >= now
                       /\ BoundTarget(r) # NoTarget
                       /\ matchTargetPattern(request[r].path, BoundTarget(r))
              /\ (pc'[r] = "putString" /\ pc[r] # "putString")
                    => /\ pc[r] = "processCredits"
                       /\ request'[r] = request[r]
              /\ (effects'[r].fetches > effects[r].fetches
                      \/ (fetchRequest'[r] # fetchRequest[r] /\ pc'[r] # "idle"))
                    => /\ pc[r] = "putString"
                       /\ request'[r] = request[r]
                       /\ creditResult'[r].success
                       /\ creditResult'[r].used = BoundTarget(r).costInfo.cost
                       /\ KV_CREDITS'[record.clientId] = toString(creditResult'[r].remaining)
                       /\ StartsWith(fetchRequest'[r].url, targetUrlBase(BoundTarget(r)))
                       /\ \A i \in 1..Len(targets) :
                              targets[i].targetUrl # BoundTarget(r).targetUrl
                                  => ~StartsWith(fetchRequest'[r].url,
                                                 targetUrlBase(targets[i]))]_vars

\* C35 witness: a backend request is out for key-b, whose expiry is the time
\* at the start, on the target of key-b, with its debit of 5 written.
C35_Witness ==
    \E r \in Slots :
        /\ pc[r] = "fetch"
        /\ request[r].apiKey = "key-b"
        /\ effects[r].fetches = 1
        /\ creditResult[r] = [success |-> TRUE, remaining |-> 5, used |-> 5]
        /\ KV_CREDITS["c1"] = toString(5)
        /\ StartsWith(fetchRequest[r].url, targetUrlBase(getTargetConfig("complex-target")))

\* C36: when processCredits returns success, the balance it reports as
\* remaining is the one stored: a write of the new balance that fails does
\* not end in success with the old balance still in the store.
C36_SuccessMeansStored ==
    [][\A r \in Slots :
          (pc[r] = "putString" /\ pc'[r] # "putString" /\ creditResult'[r].success)
          => KV_CREDITS'[apiKeyConfig[r].clientId] = toString(creditResult'[r].remaining)]_vars

\* the handler of slot r was given no record for a key that has one in the
\* store: its read of the key record failed
KeyReadFailed(r) ==
    /\ pc[r] \notin {"idle", "getApiKeyConfig"}
    /\ request[r].method # "OPTIONS"
    /\ request[r].apiKey # NoHeader
    /\ KV_API_KEY[request[r].apiKey].exists
    /\ ~apiKeyConfig[r].exists

\* processCredits of slot r leaves its read with the outcome the stored
\* balance gives
BalanceReadAnswered(r) ==
    LET cost   == TargetOf(r).costInfo.cost
        stored == StoredBalance(apiKeyConfig[r].clientId)
    IN  IF cost > stored
        THEN /\ pc'[r] = "done"
             /\ creditResult'[r] = [success |-> FALSE, remaining |-> stored, used |-> 0]
        ELSE /\ pc'[r] = "putString"
             /\ newBalance'[r] = stored - cost

\* C37: a request whose read of the key record failed is answered with 403,
\* and a request whose read of the balance failed, the cost of its target
\* being 1 or more, is answered with 402; neither sends a backend request
\* and neither writes a balance.
C37_ReadFailuresFailClosed ==
    [][\A r \in Slots :
          /\ KeyReadFailed(r)'
                => /\ pc'[r] \in {"validate", "done"}
                   /\ pc'[r] = "done" => response'[r].status = 403
                   /\ effects'[r] = NoEffects
                   /\ fetchRequest'[r] = NoFetchRequest
          /\ (/\ pc[r] = "processCredits"
              /\ pc'[r] # "processCredits"
              /\ TargetOf(r).costInfo.cost >= 1
              /\ ~BalanceReadAnswered(r))
                => /\ pc'[r] = "done"
                   /\ response'[r].status = 402
                   /\ KV_CREDITS' = KV_CREDITS
                   /\ effects'[r].puts = 0
                   /\ effects'[r].fetches = 0
                   /\ fetchRequest'[r] = NoFetchRequest]_vars

\* C37 witness: one request was answered 403 after the read of the record of
\* key-a failed, another was answered 402 for client c1 after the read of
\* its balance failed, and the balance of c1 is the 10 of the start.
C37_Witness ==
    \E r1, r2 \in Slots :
        /\ KeyReadFailed(r1)
        /\ pc[r1] = "done"
        /\ response[r1].status = 403
        /\ pc[r2] = "done"
        /\ apiKeyConfig[r2].clientId = "c1"
        /\ response[r2].status = 402
        /\ creditResult[r2] = [success |-> FALSE, remaining |-> 0, used |-> 0]
        /\ effects[r2].fetches = 0
        /\ KV_CREDITS["c1"] = toString(10)

\* cost is what the first entry of costPatterns that matches the path
\* carries, or 1 where no entry matches
FirstMatchCost(costPatterns, path, cost) ==
    \/ \E i \in 1..Len(costPatterns) :
           /\ RegExpTest(costPatterns[i].pattern, path)
           /\ \A j \in 1..(i - 1) : ~RegExpTest(costPatterns[j].pattern, path)
           /\ cost = costPatterns[i].cost
    \/ /\ \A i \in 1..Len(costPatterns) : ~RegExpTest(costPatterns[i].pattern, path)
       /\ cost = 1

\* C33: getRequestCost and getEndpointCost return the cost of the first
\* entry of their ordered pattern list whose regular expression matches the
\* path, and 1 when no entry matches; '/api/v1/complex' gives 5 and every
\* result is 1 or more.
C33_CostIsFirstMatchOrOne ==
    /\ "getRequestCost" \in ret.returned
          => /\ FirstMatchCost(RequestCostPatterns, call.path, ret.requestCost)
             /\ ret.requestCost >= 1
             /\ call.path = PathV1Complex => ret.requestCost = 5
    /\ "getEndpointCost" \in ret.returned
          => /\ FirstMatchCost(EndpointCostPatterns, call.path, ret.endpointCost)
             /\ ret.endpointCost >= 1
             /\ call.path = PathV1Complex => ret.endpointCost = 5

\* C33 witness: both lookups have answered 5 for '/api/v1/complex'.
C33_Witness ==
    /\ call.path = PathV1Complex
    /\ ret.returned = {"getRequestCost", "getEndpointCost"}
    /\ ret.requestCost = 5
    /\ ret.endpointCost = 5

Listed(path) ==
    LET list == KvList(APIKI_KV, TARGETS_LIST)
    IN  {i \in 1..Len(list) :
            /\ KvHas(APIKI_KV, TargetName(<<list[i]>>))
            /\ matchStoredTargetPattern(path, APIKI_KV[TargetName(<<list[i]>>)])}

\* the outcome the list and the descriptors of the store give for the path
FirstListed(path, found, config) ==
    IF Listed(path) = {} THEN ~found
    ELSE /\ found
         /\ \E i \in Listed(path) :
                /\ \A j \in Listed(path) : i <= j
                /\ config = APIKI_KV[TargetName(<<KvList(APIKI_KV, TARGETS_LIST)[i]>>)]

\* C32: findTargetConfig(path) returns the descriptor of the first id of
\* targets:list, in list order, whose descriptor is in the store and whose
\* pattern matches the path, and null iff the list is absent or empty or no
\* listed descriptor matches.
C32_FindReturnsFirstListed ==
    find.pc = "returned" => FirstListed(find.path, find.found, find.config)

\* the same of the service with caches alone
FirstListedWithCaches ==
    (find.pc = "returned" /\ find.service = "cached")
        => FirstListed(find.path, find.found, find.config)

\* C31: in the gateway that looks its target up in the store, a request
\* whose path matches no target is answered 404 and leaves the stored
\* balance of its client as the request found it.
C31_NoTargetLeavesBalance ==
    (dynamic.pc = "done" /\ dynamic.status = 404)
        => KV_CREDITS[dynamic.clientId] = dynamic.stored[dynamic.clientId]

====
